---- MODULE Spec2Model ----
(***************************************************************************)
(* A model of the Hack VM translator (main.go, the version that handles    *)
(* projects 7 and 8): the command parser, the code generator, the run of   *)
(* main over the input modules, and the execution of the emitted assembly  *)
(* on the Hack machine.                                                    *)
(*                                                                         *)
(* Text is modelled as it is: a string is a sequence of one-character      *)
(* strings, so splitting, case conversion, number parsing and formatting   *)
(* are computed, not assumed.                                              *)
(***************************************************************************)
EXTENDS Integers, Sequences, FiniteSets, TLC

VARIABLES
    pc,                  \* position of the run / of the machine
    srcFiles,            \* main: the opened source files, <<[name, lines]>>
    fileWithSysInit,     \* main: index into srcFiles, 0 for nil
    instructionsLines,   \* main: the cleaned, file-tagged command lines
    resultLines,         \* main: the emitted assembly lines
    i,                   \* main: index of the translation loop (0-based)
    currentFunctionName, \* global of the generator
    retIndex,            \* global of the generator
    scanOrder,           \* main: the file indices in the order they are read
    exitCode,            \* main: -1 while running, else the exit code
    stdout,              \* main: the last message printed, [text, line, expected, got]
    cmpFile,             \* main: the compare file, [given, opens, lines]
    openHandles,         \* main: the file handles opened and not closed
    dstBefore,           \* history: the destination file as the run found it
    dst,                 \* main: the destination file, [exists, lines]
    emitLog,             \* history: per translated command, what it emitted
    parseLine,           \* parser harness: the line handed to parseInstruction
    parseRes,            \* parser harness: what parseInstruction returned
    cpu,                 \* machine: [A, D, PC, fill, RAM]
    scen                 \* machine: the scenario being run

mainVars == <<srcFiles, fileWithSysInit, instructionsLines, resultLines, i,
              currentFunctionName, retIndex, scanOrder, exitCode, stdout, cmpFile,
              openHandles, dstBefore, dst, emitLog>>
parseVars == <<parseLine, parseRes>>
machineVars == <<cpu, scen>>

vars == <<pc, mainVars, parseVars, machineVars>>

-----------------------------------------------------------------------------
(* Text helpers: what strings.*, strconv.Atoi and fmt's %d do.             *)

LowerLetters == <<"a","b","c","d","e","f","g","h","i","j","k","l","m",
                  "n","o","p","q","r","s","t","u","v","w","x","y","z">>
UpperLetters == <<"A","B","C","D","E","F","G","H","I","J","K","L","M",
                  "N","O","P","Q","R","S","T","U","V","W","X","Y","Z">>
Digits == <<"0","1","2","3","4","5","6","7","8","9">>

IndexIn(c, tab) == IF \E k \in 1..Len(tab) : tab[k] = c
                   THEN CHOOSE k \in 1..Len(tab) : tab[k] = c
                   ELSE 0

\* strings.ToLower, one character
LowerChar(c) == LET k == IndexIn(c, UpperLetters) IN IF k = 0 THEN c ELSE LowerLetters[k]
\* strings.ToUpper, one character
UpperChar(c) == LET k == IndexIn(c, LowerLetters) IN IF k = 0 THEN c ELSE UpperLetters[k]

ToLower(s) == [k \in 1..Len(s) |-> LowerChar(s[k])]
ToUpper(s) == [k \in 1..Len(s) |-> UpperChar(s[k])]

IsSpace(c) == c \in {" ", "\t"}

RECURSIVE TrimLeft(_)
TrimLeft(s) == IF s # <<>> /\ IsSpace(Head(s)) THEN TrimLeft(Tail(s)) ELSE s

RECURSIVE TrimRight(_)
TrimRight(s) == IF s # <<>> /\ IsSpace(s[Len(s)])
                THEN TrimRight(SubSeq(s, 1, Len(s) - 1)) ELSE s

\* strings.TrimSpace
TrimSpace(s) == TrimRight(TrimLeft(s))

\* strings.HasPrefix
HasPrefix(s, p) == Len(s) >= Len(p) /\ SubSeq(s, 1, Len(p)) = p

\* strings.Index: the first position (1-based) where sub occurs in s, 0 if none
IndexOf(s, sub) ==
    LET hits == {k \in 1..(Len(s) - Len(sub) + 1) : SubSeq(s, k, k + Len(sub) - 1) = sub}
    IN IF hits = {} THEN 0 ELSE CHOOSE k \in hits : \A h \in hits : k <= h

\* strings.Contains
Contains(s, sub) == IndexOf(s, sub) # 0

\* strings.Split(s, sep) for a non-empty sep: always at least one part
RECURSIVE Split(_, _)
Split(s, sep) ==
    LET k == IndexOf(s, sep)
    IN IF k = 0 THEN <<s>>
       ELSE <<SubSeq(s, 1, k - 1)>> \o Split(SubSeq(s, k + Len(sep), Len(s)), sep)

\* fmt's %d of a non-negative number
RECURSIVE ItoaNat(_)
ItoaNat(n) == IF n < 10 THEN <<Digits[n + 1]>>
              ELSE ItoaNat(n \div 10) \o <<Digits[(n % 10) + 1]>>

\* fmt's %d
Itoa(n) == IF n < 0 THEN <<"-">> \o ItoaNat(-n) ELSE ItoaNat(n)

RECURSIVE DigitsVal(_, _)
DigitsVal(s, acc) == IF s = <<>> THEN acc
                     ELSE DigitsVal(Tail(s), acc * 10 + (IndexIn(Head(s), Digits) - 1))

\* strconv.Atoi: an optional sign, then one or more decimal digits
Atoi(s) ==
    LET body == IF s # <<>> /\ Head(s) \in {"+", "-"} THEN Tail(s) ELSE s
        good == body # <<>> /\ \A k \in 1..Len(body) : IndexIn(body[k], Digits) # 0
    IN IF ~good THEN [err |-> TRUE, val |-> 0]
       ELSE [err |-> FALSE,
             val |-> IF Head(s) = "-" THEN 0 - DigitsVal(body, 0) ELSE DigitsVal(body, 0)]

-----------------------------------------------------------------------------
(* The vocabulary of the VM language, as text.                             *)

W_add == <<"a","d","d">>
W_sub == <<"s","u","b">>
W_neg == <<"n","e","g">>
W_eq == <<"e","q">>
W_gt == <<"g","t">>
W_lt == <<"l","t">>
W_and == <<"a","n","d">>
W_or == <<"o","r">>
W_not == <<"n","o","t">>
W_push == <<"p","u","s","h">>
W_pop == <<"p","o","p">>
W_label == <<"l","a","b","e","l">>
W_goto == <<"g","o","t","o">>
W_if_goto == <<"i","f","-","g","o","t","o">>
W_function == <<"f","u","n","c","t","i","o","n">>
W_return == <<"r","e","t","u","r","n">>
W_call == <<"c","a","l","l">>
W_constant == <<"c","o","n","s","t","a","n","t">>
W_local == <<"l","o","c","a","l">>
W_argument == <<"a","r","g","u","m","e","n","t">>
W_this == <<"t","h","i","s">>
W_that == <<"t","h","a","t">>
W_static == <<"s","t","a","t","i","c">>
W_temp == <<"t","e","m","p">>
W_pointer == <<"p","o","i","n","t","e","r">>

\* CommandType, by its String()
CommandTypeArithmetic == "arithmetic"
CommandTypePush == "push"
CommandTypePop == "pop"
CommandTypeLabel == "label"
CommandTypeGOTO == "goto"
CommandTypeIf == "if-goto"
CommandTypeFunction == "function"
CommandTypeReturn == "return"
CommandTypeCall == "call"

\* SegmentType, by its String()
SegmentTypeConstant == "constant"
SegmentTypeLocal == "local"
SegmentTypeArgument == "argument"
SegmentTypeThis == "this"
SegmentTypeThat == "that"
SegmentTypeStatic == "static"
SegmentTypeTemp == "temp"
SegmentTypePointer == "pointer"

\* ALType, by its String()
ALTypeAdd == "add"
ALTypeSub == "sub"
ALTypeNeg == "neg"
ALTypeEq == "eq"
ALTypeGt == "gt"
ALTypeLt == "lt"
ALTypeAnd == "and"
ALTypeOr == "or"
ALTypeNot == "not"

\* ALType.String(), as text
ALTypeString(al) ==
    CASE al = ALTypeAdd -> W_add [] al = ALTypeSub -> W_sub [] al = ALTypeNeg -> W_neg
      [] al = ALTypeEq -> W_eq [] al = ALTypeGt -> W_gt [] al = ALTypeLt -> W_lt
      [] al = ALTypeAnd -> W_and [] al = ALTypeOr -> W_or [] al = ALTypeNot -> W_not

\* SegmentType.ID(): the register symbol of a segment, "" when it has none
SegmentID(st) ==
    CASE st = SegmentTypeLocal -> <<"L","C","L">>
      [] st = SegmentTypeArgument -> <<"A","R","G">>
      [] st = SegmentTypeThis -> <<"T","H","I","S">>
      [] st = SegmentTypeThat -> <<"T","H","A","T">>
      [] OTHER -> <<>>

-----------------------------------------------------------------------------
(* parseInstruction                                                        *)

\* validAL of parseInstruction
validAL == <<W_add, W_sub, W_neg, W_eq, W_gt, W_lt, W_and, W_or, W_not>>

\* slices.Contains
SliceContains(sl, x) == \E k \in 1..Len(sl) : sl[k] = x

\* the if / else-if chain that maps rawAl to an ALType
ALTypeOf(rawAl) ==
    CASE rawAl = W_add -> ALTypeAdd [] rawAl = W_sub -> ALTypeSub
      [] rawAl = W_neg -> ALTypeNeg [] rawAl = W_eq -> ALTypeEq
      [] rawAl = W_gt -> ALTypeGt [] rawAl = W_lt -> ALTypeLt
      [] rawAl = W_and -> ALTypeAnd [] rawAl = W_or -> ALTypeOr
      [] rawAl = W_not -> ALTypeNot [] OTHER -> ALTypeAdd

\* rawCt taken as written, without the lower-casing
RawCtExact(tok) == tok

\* the command-type token as it is compared: rawCt
RawCt(tok) == ToLower(tok)

\* the if / else-if chain over rawCt; "" when no branch matches
CommandTypeOf(rawCt) ==
    CASE rawCt = W_pop -> CommandTypePop [] rawCt = W_push -> CommandTypePush
      [] rawCt = W_label -> CommandTypeLabel [] rawCt = W_goto -> CommandTypeGOTO
      [] rawCt = W_if_goto -> CommandTypeIf [] rawCt = W_function -> CommandTypeFunction
      [] rawCt = W_return -> CommandTypeReturn [] rawCt = W_call -> CommandTypeCall
      [] OTHER -> ""

\* the segment token as it is compared: rawSt
RawSt(tok) == ToLower(tok)

\* the if / else-if chain over rawSt; "" when no branch matches
SegmentTypeOf(rawSt) ==
    CASE rawSt = W_constant -> SegmentTypeConstant [] rawSt = W_local -> SegmentTypeLocal
      [] rawSt = W_argument -> SegmentTypeArgument [] rawSt = W_this -> SegmentTypeThis
      [] rawSt = W_that -> SegmentTypeThat [] rawSt = W_static -> SegmentTypeStatic
      [] rawSt = W_temp -> SegmentTypeTemp [] rawSt = W_pointer -> SegmentTypePointer
      [] OTHER -> ""

\* the zero Instruction: what every field holds when it is not set
NoInstruction ==
    [FileName |-> <<>>, Line |-> <<>>, CommandType |-> CommandTypeArithmetic,
     Arg1 |-> <<>>, SegmentType |-> SegmentTypeConstant, Arg2 |-> <<>>,
     Arg2Val |-> 0, ALType |-> ALTypeAdd, Index |-> 0]

\* the three ways parseInstruction ends: (instruction, nil), (nil, error), or a
\* run-time panic (an index out of range)
ParseOk(ins) == [kind |-> "ok", ins |-> ins, fmt |-> "", arg |-> <<>>]
ParseErr(f, a) == [kind |-> "error", ins |-> NoInstruction, fmt |-> f, arg |-> a]
ParsePanic == [kind |-> "panic", ins |-> NoInstruction,
               fmt |-> "index out of range", arg |-> <<>>]

\* "arg2 parsing" of parseInstruction, and the final return
ParseArg2(fileName, line, parts, ct, st, arg1) ==
    IF ct \in {CommandTypePush, CommandTypePop, CommandTypeFunction, CommandTypeCall}
    THEN IF Len(parts) > 2
         THEN LET arg2 == parts[3]
                  n == IF Len(arg2) > 0 THEN Atoi(arg2) ELSE [err |-> FALSE, val |-> 0]
              IN IF n.err THEN ParseErr("invalid arg2 value: %s", arg2)
                 ELSE ParseOk([NoInstruction EXCEPT !.FileName = fileName, !.Line = line,
                                   !.CommandType = ct, !.SegmentType = st, !.Arg1 = arg1,
                                   !.Arg2 = arg2, !.Arg2Val = n.val])
         ELSE ParseErr("invalid arg2 value: %s", <<>>)
    ELSE ParseOk([NoInstruction EXCEPT !.FileName = fileName, !.Line = line,
                      !.CommandType = ct, !.SegmentType = st, !.Arg1 = arg1])

\* "arg1 parsing" of parseInstruction; parts[1] of the code is parts[2] here
ParseArg1(fileName, line, parts, ct) ==
    IF ct \in {CommandTypePush, CommandTypePop}
    THEN IF Len(parts) < 2 THEN ParsePanic
         ELSE LET rawSt == RawSt(parts[2])
                  st == SegmentTypeOf(rawSt)
              IN IF st = "" THEN ParseErr("invalid arg1 segment type: %s", parts[2])
                 ELSE ParseArg2(fileName, line, parts, ct, st, rawSt)
    ELSE IF ct \in {CommandTypeLabel, CommandTypeGOTO, CommandTypeIf,
                    CommandTypeFunction, CommandTypeCall}
    THEN IF Len(parts) < 2 THEN ParsePanic
         ELSE ParseArg2(fileName, line, parts, ct, SegmentTypeConstant, parts[2])
    ELSE IF ct = CommandTypeReturn
    THEN IF Len(parts) > 1
         THEN ParseErr("invalid arg1 return, no argument expected", <<>>)
         ELSE ParseArg2(fileName, line, parts, ct, SegmentTypeConstant, <<>>)
    ELSE ParseErr("invalid command type: %s", parts[1])

parseInstruction(index, fileName, line) ==
    LET parts == Split(line, <<" ">>)
        pl == Len(parts)
    IN IF pl = 0 \/ pl > 3 THEN ParseErr("invalid instruction length: %d", Itoa(pl))
       ELSE IF pl = 1 /\ SliceContains(validAL, parts[1])
       THEN ParseOk([NoInstruction EXCEPT !.FileName = fileName, !.Line = line,
                         !.CommandType = CommandTypeArithmetic, !.Arg1 = parts[1],
                         !.ALType = ALTypeOf(parts[1]), !.Index = index])
       ELSE LET ct == CommandTypeOf(RawCt(parts[1]))
            IN IF ct = "" THEN ParseErr("invalid command type: %s", parts[1])
               ELSE ParseArg1(fileName, line, parts, ct)

-----------------------------------------------------------------------------
(* The emitted lines.  A line of the output is kept by its shape: "@sym"   *)
(* (an A-instruction), "(sym)" (a label declaration), a C-instruction by    *)
(* its text, or a comment.                                                  *)

AI(sym) == [t |-> "A", text |-> "@", sym |-> sym]
CI(text) == [t |-> "C", text |-> text, sym |-> <<>>]
LabelDecl(sym) == [t |-> "L", text |-> "()", sym |-> sym]
Comment(text, args) == [t |-> "//", text |-> text, sym |-> args]

S_SP == <<"S","P">>
S_LCL == <<"L","C","L">>
S_ARG == <<"A","R","G">>
S_THIS == <<"T","H","I","S">>
S_THAT == <<"T","H","A","T">>
S_R13 == <<"R","1","3">>
S_R14 == <<"R","1","4">>
S_LABEL == <<"L","A","B","E","L">>
S_SysInit == <<"S","y","s",".","i","n","i","t">>
S_true == <<"_","t","r","u","e">>
S_false == <<"_","f","a","l","s","e">>
S_ret == <<"$","r","e","t",".">>

RECURSIVE Repeat(_, _)
Repeat(n, lines) == IF n <= 0 THEN <<>> ELSE lines \o Repeat(n - 1, lines)

\* Instruction.getLogicalLabel
getLogicalLabel(ins, prefix) == LabelDecl(ToUpper(prefix \o <<".">> \o Itoa(ins.Index)))

\* Instruction.getLogicalARegister
getLogicalARegister(ins, prefix) == AI(ToUpper(prefix \o <<".">> \o Itoa(ins.Index)))

\* genArithmetic with the operands of sub exchanged
genArithmeticSwapped(ins) ==
    IF ins.ALType \in {ALTypeAdd, ALTypeSub, ALTypeAnd, ALTypeOr}
    THEN <<AI(S_SP), CI("AM=M-1"), CI("D=M"), CI("A=A-1"),
           CI(IF ins.ALType = ALTypeAdd THEN "M=D+M" ELSE "M=D-M")>>
    ELSE <<AI(S_SP), CI("A=M-1"), CI("M=!M")>>

\* Instruction.genArithmetic; it fails for no ALType
genArithmetic(ins) ==
    IF ins.ALType \in {ALTypeAdd, ALTypeSub, ALTypeAnd, ALTypeOr}
    THEN LET op == CASE ins.ALType = ALTypeAdd -> "M=D+M"
                     [] ins.ALType = ALTypeSub -> "M=M-D"
                     [] ins.ALType = ALTypeAnd -> "M=D&M"
                     [] ins.ALType = ALTypeOr -> "M=D|M"
         IN <<AI(S_SP), CI("AM=M-1"), CI("D=M"), CI("A=A-1"), CI(op)>>
    ELSE IF ins.ALType = ALTypeNeg
    THEN <<AI(Itoa(0)), CI("D=A"), AI(S_SP), CI("A=M-1"), CI("M=D-M")>>
    ELSE IF ins.ALType \in {ALTypeEq, ALTypeGt, ALTypeLt}
    THEN LET id == ALTypeString(ins.ALType)
             jmp == CASE ins.ALType = ALTypeEq -> "D;JEQ"
                      [] ins.ALType = ALTypeGt -> "D;JGT"
                      [] ins.ALType = ALTypeLt -> "D;JLT"
         IN <<AI(S_SP), CI("AM=M-1"), CI("D=M"), CI("A=A-1"), CI("D=M-D"),
              getLogicalARegister(ins, id \o S_true), CI(jmp),
              AI(S_SP), CI("A=M-1"), CI("M=0"),
              getLogicalARegister(ins, id \o S_false), CI("0;JMP"),
              getLogicalLabel(ins, id \o S_true),
              AI(S_SP), CI("A=M-1"), CI("M=-1"),
              getLogicalLabel(ins, id \o S_false)>>
    ELSE \* ALTypeNot
         <<AI(S_SP), CI("A=M-1"), CI("M=!M")>>

\* Instruction.genConstantPUSH
genConstantPUSH(val) ==
    <<AI(Itoa(val)), CI("D=A"), AI(S_SP), CI("AM=M+1"), CI("A=A-1"), CI("M=D")>>

\* Instruction.genSegmentPUSH
genSegmentPUSH(sgt, val) ==
    <<AI(Itoa(val)), CI("D=A"), AI(SegmentID(sgt)), CI("A=D+M"), CI("D=M"),
      AI(S_SP), CI("AM=M+1"), CI("A=A-1"), CI("M=D")>>

\* the symbol of a static variable: FileName.Arg2Val
StaticSymbol(ins) == ins.FileName \o <<".">> \o Itoa(ins.Arg2Val)

\* Instruction.genStaticPUSH
genStaticPUSH(ins) ==
    <<AI(StaticSymbol(ins)), CI("D=M"), AI(S_SP), CI("AM=M+1"), CI("A=A-1"), CI("M=D")>>

\* Instruction.genTempPUSH
genTempPUSH(ins) ==
    <<AI(Itoa(ins.Arg2Val)), CI("D=A"), AI(Itoa(5)), CI("A=D+A"), CI("D=M"),
      AI(S_SP), CI("AM=M+1"), CI("A=A-1"), CI("M=D")>>

\* Instruction.genPointerPUSH
genPointerPUSH(ins) ==
    <<AI(IF ins.Arg2Val = 0 THEN S_THIS ELSE S_THAT), CI("D=M"),
      AI(S_SP), CI("A=M"), CI("M=D"), AI(S_SP), CI("M=M+1")>>

\* Instruction.genConstantPOP
genConstantPOP == <<AI(S_SP), CI("AM=M-1"), CI("D=M")>>

\* genSegmentPOP reading the top of the stack without moving SP
genSegmentPOPNoDec(sgt, val) ==
    <<AI(Itoa(val)), CI("D=A"), AI(SegmentID(sgt)), CI("D=D+M"), AI(S_R13), CI("M=D"),
      AI(S_SP), CI("A=M-1"), CI("D=M"), AI(S_R13), CI("A=M"), CI("M=D")>>

\* Instruction.genSegmentPOP
genSegmentPOP(sgt, val) ==
    <<AI(Itoa(val)), CI("D=A"), AI(SegmentID(sgt)), CI("D=D+M"), AI(S_R13), CI("M=D"),
      AI(S_SP), CI("AM=M-1"), CI("D=M"), AI(S_R13), CI("A=M"), CI("M=D")>>

\* Instruction.genStaticPOP
genStaticPOP(ins) ==
    <<AI(S_SP), CI("AM=M-1"), CI("D=M"), AI(StaticSymbol(ins)), CI("M=D")>>

\* Instruction.genTempPOP
genTempPOP(ins) ==
    <<AI(Itoa(ins.Arg2Val)), CI("D=A"), AI(Itoa(5)), CI("D=D+A"), AI(S_R13), CI("M=D"),
      AI(S_SP), CI("AM=M-1"), CI("D=M"), AI(S_R13), CI("A=M"), CI("M=D")>>

\* Instruction.genPointerPOP
genPointerPOP(ins) ==
    <<AI(S_SP), CI("AM=M-1"), CI("D=M"),
      AI(IF ins.Arg2Val = 0 THEN S_THIS ELSE S_THAT), CI("M=D")>>

\* the return-address label without the counter
RetAddrLabelNoCounter(cfn, ri) == cfn \o S_ret \o Itoa(1)

\* genCall: the return-address label, from the two globals
RetAddrLabel(cfn, ri) == cfn \o S_ret \o Itoa(ri)

\* the push of a segment pointer's address instead of its value
CallPushSegmentAddress(seg) ==
    <<Comment("/// call ; working with %s", SegmentID(seg)),
      AI(SegmentID(seg)), CI("D=A"), AI(S_SP), CI("A=M"), CI("M=D"), AI(S_SP), CI("M=M+1")>>

\* genCall: the push of one saved segment pointer
CallPushSegment(seg) ==
    <<Comment("/// call ; working with %s", SegmentID(seg)),
      AI(SegmentID(seg)), CI("D=M"), AI(S_SP), CI("A=M"), CI("M=D"), AI(S_SP), CI("M=M+1")>>

\* "ARG = SP - 5 - nArgs" without the 5
CallSetARGNoFrame(calleeNArgs) ==
    <<Comment("/// call ; ARG = SP - 5 - nArgs", <<>>),
      AI(Itoa(calleeNArgs)), CI("D=A"), AI(S_SP), CI("A=M"), CI("D=A-D"),
      AI(S_ARG), CI("M=D")>>

\* genCall: "ARG = SP - 5 - nArgs"
CallSetARG(calleeNArgs) ==
    <<Comment("/// call ; ARG = SP - 5 - nArgs", <<>>),
      AI(Itoa(5 + calleeNArgs)), CI("D=A"), AI(S_SP), CI("A=M"), CI("D=A-D"),
      AI(S_ARG), CI("M=D")>>

\* genCall, given the globals currentFunctionName (cfn) and retIndex (ri); the
\* caller of this operator does the retIndex++
genCall(calleeFn, calleeNArgs, cfn, ri) ==
    LET retAddrLabel == RetAddrLabel(cfn, ri)
    IN <<Comment("/// call ; working with return address %s", retAddrLabel),
         AI(retAddrLabel), CI("D=A"), AI(S_SP), CI("A=M"), CI("M=D"), AI(S_SP), CI("M=M+1")>>
       \o CallPushSegment(SegmentTypeLocal) \o CallPushSegment(SegmentTypeArgument)
       \o CallPushSegment(SegmentTypeThis) \o CallPushSegment(SegmentTypeThat)
       \o CallSetARG(calleeNArgs)
       \o <<Comment("/// call ; LCL = SP", <<>>),
            AI(S_SP), CI("D=M"), AI(S_LCL), CI("M=D"),
            Comment("/// call ; goto function %s", calleeFn),
            AI(calleeFn), CI("0;JMP"),
            LabelDecl(retAddrLabel)>>

\* genFunction without the pushes for the locals
genFunctionNoLocals(ins) ==
    <<LabelDecl(ins.Arg1)>>

\* Instruction.genFunction; the caller of this operator sets currentFunctionName
genFunction(ins) ==
    <<LabelDecl(ins.Arg1)>> \o Repeat(ins.Arg2Val, genConstantPUSH(0))

\* genReturn: the restore of one segment pointer from the frame
ReturnRestoreSegment(ins, seg) ==
    <<Comment("/// %s ; working with %s", <<ins.Line, seg>>),
      AI(S_R13), CI("ADM=M-1"), CI("D=M"), AI(SegmentID(seg)), CI("M=D")>>

\* genReturn: "SP = ARG + 1"
ReturnSetSP ==
    <<Comment("/// return ; SP = ARG + 1", <<>>),
      AI(S_ARG), CI("D=M+1"), AI(S_SP), CI("M=D")>>

\* genReturn reading the return address only after the return value is stored
genReturnLateRetAddr(ins) ==
    <<Comment("/// return ; endFrame = LCL", <<>>),
      AI(S_LCL), CI("D=M"), AI(S_R13), CI("M=D"),
      Comment("/// return ; RAM[ARG] = pop() = RAM[SP-1]", <<>>),
      AI(S_SP), CI("A=M-1"), CI("D=M"), AI(S_ARG), CI("A=M"), CI("M=D"),
      Comment("/// return ; retAddr = D = RAM[endFrame - 5]", <<>>),
      AI(S_R13), CI("D=M"), AI(Itoa(5)), CI("A=D-A"), CI("D=M"), AI(S_R14), CI("M=D")>>
    \o ReturnSetSP
    \o ReturnRestoreSegment(ins, SegmentTypeThat) \o ReturnRestoreSegment(ins, SegmentTypeThis)
    \o ReturnRestoreSegment(ins, SegmentTypeArgument) \o ReturnRestoreSegment(ins, SegmentTypeLocal)
    \o <<Comment("/// return ; goto caller", <<>>),
         AI(S_R14), CI("A=M"), CI("0;JMP")>>

\* Instruction.genReturn
genReturn(ins) ==
    <<Comment("/// return ; endFrame = LCL", <<>>),
      AI(S_LCL), CI("D=M"), AI(S_R13), CI("M=D"),
      Comment("/// return ; retAddr = D = RAM[endFrame - 5]", <<>>),
      AI(Itoa(5)), CI("A=D-A"), CI("D=M"), AI(S_R14), CI("M=D"),
      Comment("/// return ; RAM[ARG] = pop() = RAM[SP-1]", <<>>),
      AI(S_SP), CI("A=M-1"), CI("D=M"), AI(S_ARG), CI("A=M"), CI("M=D")>>
    \o ReturnSetSP
    \o ReturnRestoreSegment(ins, SegmentTypeThat) \o ReturnRestoreSegment(ins, SegmentTypeThis)
    \o ReturnRestoreSegment(ins, SegmentTypeArgument) \o ReturnRestoreSegment(ins, SegmentTypeLocal)
    \o <<Comment("/// return ; goto caller", <<>>),
         AI(S_R14), CI("A=M"), CI("0;JMP")>>

\* the label declaration emitted for a label command
UserLabelDecl(ins, cfn) == LabelDecl(ins.Arg1)

\* Instruction.GenAsm, given the globals; it returns the lines and the globals
\* after it.  No command type reaches the final error return.
GenAsm(ins, cfn, ri) ==
    LET head == <<Comment("// %s", ins.Line)>>
        ct == ins.CommandType
        st == ins.SegmentType
        body ==
          CASE ct = CommandTypeArithmetic -> genArithmetic(ins)
            [] ct = CommandTypePush ->
                 (CASE st = SegmentTypeConstant -> genConstantPUSH(ins.Arg2Val)
                    [] st = SegmentTypeStatic -> genStaticPUSH(ins)
                    [] st = SegmentTypeTemp -> genTempPUSH(ins)
                    [] st = SegmentTypePointer -> genPointerPUSH(ins)
                    [] OTHER -> genSegmentPUSH(st, ins.Arg2Val))
            [] ct = CommandTypePop ->
                 (CASE st = SegmentTypeConstant -> genConstantPOP
                    [] st = SegmentTypeStatic -> genStaticPOP(ins)
                    [] st = SegmentTypeTemp -> genTempPOP(ins)
                    [] st = SegmentTypePointer -> genPointerPOP(ins)
                    [] OTHER -> genSegmentPOP(st, ins.Arg2Val))
            [] ct = CommandTypeLabel -> <<UserLabelDecl(ins, cfn)>>
            [] ct = CommandTypeGOTO -> <<AI(ins.Arg1), CI("0;JMP")>>
            [] ct = CommandTypeIf ->
                 <<AI(S_SP), CI("AM=M-1"), CI("D=M"), AI(ins.Arg1), CI("D;JNE")>>
            [] ct = CommandTypeFunction -> genFunction(ins)
            [] ct = CommandTypeReturn -> genReturn(ins)
            [] ct = CommandTypeCall -> genCall(ins.Arg1, ins.Arg2Val, cfn, ri)
    IN [lines |-> head \o body,
        cfn |-> IF ct = CommandTypeFunction THEN ins.Arg1 ELSE cfn,
        ri |-> IF ct = CommandTypeCall THEN ri + 1 ELSE ri]

-----------------------------------------------------------------------------
(* The target machine: the Hack assembler's resolution of the emitted      *)
(* lines and the Hack CPU's execution of them.  Words are 16 bits wide and *)
(* kept as 0..65535; a jump tests the word as a two's-complement number.   *)

Mod16(x) == x % 65536
Signed16(x) == IF x >= 32768 THEN x - 65536 ELSE x

RECURSIVE BitAnd(_, _, _)
BitAnd(x, y, n) == IF n = 0 THEN 0
                   ELSE ((x % 2) * (y % 2)) + 2 * BitAnd(x \div 2, y \div 2, n - 1)

And16(x, y) == BitAnd(x, y, 16)
Not16(x) == 65535 - x
Or16(x, y) == Not16(And16(Not16(x), Not16(y)))

IsNumeric(sym) == sym # <<>> /\ \A k \in 1..Len(sym) : IndexIn(sym[k], Digits) # 0

\* the assembler's predefined symbols; -1 for any other symbol
Predefined(sym) ==
    CASE sym = S_SP -> 0 [] sym = S_LCL -> 1 [] sym = S_ARG -> 2
      [] sym = S_THIS -> 3 [] sym = S_THAT -> 4
      [] sym = S_R13 -> 13 [] sym = S_R14 -> 14
      [] OTHER -> -1

IsInstr(l) == l.t \in {"A", "C"}

\* the number of instructions among the first n lines: the ROM address of
\* whatever instruction comes next
RECURSIVE RomAddr(_, _)
RomAddr(lines, n) == IF n = 0 THEN 0
                     ELSE RomAddr(lines, n - 1) + (IF IsInstr(lines[n]) THEN 1 ELSE 0)

\* the ROM addresses a label symbol is declared at (more than one when the
\* program declares it twice)
LabelAddrs(lines, sym) ==
    {RomAddr(lines, p) : p \in {q \in 1..Len(lines) : lines[q] = LabelDecl(sym)}}

IsVariable(lines, sym) ==
    ~IsNumeric(sym) /\ Predefined(sym) = -1 /\ LabelAddrs(lines, sym) = {}

\* the line a symbol is first used at
FirstUse(lines, sym) == CHOOSE p \in 1..Len(lines) :
    /\ lines[p] = AI(sym)
    /\ \A q \in 1..(p - 1) : lines[q] # AI(sym)

\* variables get the RAM addresses 16, 17, ... in the order of their first use
VarAddr(lines, sym) ==
    16 + Cardinality({lines[q].sym : q \in {r \in 1..(FirstUse(lines, sym) - 1) :
                         lines[r].t = "A" /\ IsVariable(lines, lines[r].sym)}})

\* the values "@sym" may load
Resolve(lines, sym) ==
    IF IsNumeric(sym) THEN {DigitsVal(sym, 0)}
    ELSE IF Predefined(sym) # -1 THEN {Predefined(sym)}
    ELSE IF LabelAddrs(lines, sym) # {} THEN LabelAddrs(lines, sym)
    ELSE {VarAddr(lines, sym)}

\* a C-instruction's text as <<dest, comp, jump>>
CDecode(text) ==
    CASE text = "AM=M-1" -> <<"AM", "M-1", "">>
      [] text = "AM=M+1" -> <<"AM", "M+1", "">>
      [] text = "ADM=M-1" -> <<"ADM", "M-1", "">>
      [] text = "D=M" -> <<"D", "M", "">>
      [] text = "D=A" -> <<"D", "A", "">>
      [] text = "A=M" -> <<"A", "M", "">>
      [] text = "M=D" -> <<"M", "D", "">>
      [] text = "A=A-1" -> <<"A", "A-1", "">>
      [] text = "A=M-1" -> <<"A", "M-1", "">>
      [] text = "A=D+M" -> <<"A", "D+M", "">>
      [] text = "A=D+A" -> <<"A", "D+A", "">>
      [] text = "A=D-A" -> <<"A", "D-A", "">>
      [] text = "D=D+M" -> <<"D", "D+M", "">>
      [] text = "D=D+A" -> <<"D", "D+A", "">>
      [] text = "D=M-D" -> <<"D", "M-D", "">>
      [] text = "D=A-D" -> <<"D", "A-D", "">>
      [] text = "D=M+1" -> <<"D", "M+1", "">>
      [] text = "M=D+M" -> <<"M", "D+M", "">>
      [] text = "M=M-D" -> <<"M", "M-D", "">>
      [] text = "M=D&M" -> <<"M", "D&M", "">>
      [] text = "M=D|M" -> <<"M", "D|M", "">>
      [] text = "M=D-M" -> <<"M", "D-M", "">>
      [] text = "M=!M" -> <<"M", "!M", "">>
      [] text = "M=M+1" -> <<"M", "M+1", "">>
      [] text = "M=0" -> <<"M", "0", "">>
      [] text = "M=-1" -> <<"M", "-1", "">>
      [] text = "D;JEQ" -> <<"", "D", "JEQ">>
      [] text = "D;JGT" -> <<"", "D", "JGT">>
      [] text = "D;JLT" -> <<"", "D", "JLT">>
      [] text = "D;JNE" -> <<"", "D", "JNE">>
      [] text = "0;JMP" -> <<"", "0", "JMP">>

\* the ALU: the value of a comp field
Comp(comp, a, d, m) ==
    CASE comp = "0" -> 0
      [] comp = "-1" -> 65535
      [] comp = "D" -> d
      [] comp = "A" -> a
      [] comp = "M" -> m
      [] comp = "!M" -> Not16(m)
      [] comp = "M+1" -> Mod16(m + 1)
      [] comp = "M-1" -> Mod16(m + 65535)
      [] comp = "A-1" -> Mod16(a + 65535)
      [] comp = "D+A" -> Mod16(d + a)
      [] comp = "D+M" -> Mod16(d + m)
      [] comp = "D-A" -> Mod16(d + 65536 - a)
      [] comp = "A-D" -> Mod16(a + 65536 - d)
      [] comp = "D-M" -> Mod16(d + 65536 - m)
      [] comp = "M-D" -> Mod16(m + 65536 - d)
      [] comp = "D&M" -> And16(d, m)
      [] comp = "D|M" -> Or16(d, m)

\* whether a jump field jumps on the word v
Jumps(jump, v) ==
    CASE jump = "" -> FALSE
      [] jump = "JMP" -> TRUE
      [] jump = "JEQ" -> v = 0
      [] jump = "JNE" -> v # 0
      [] jump = "JGT" -> Signed16(v) > 0
      [] jump = "JLT" -> Signed16(v) < 0

\* the assembled program: the instructions in order, every symbol resolved
Assemble(lines) ==
    LET ins == SelectSeq(lines, IsInstr)
    IN [k \in 1..Len(ins) |->
          IF ins[k].t = "A"
          THEN [t |-> "A", vals |-> Resolve(lines, ins[k].sym), c |-> <<>>]
          ELSE [t |-> "C", vals |-> {}, c |-> CDecode(ins[k].text)]]

\* RAM holds the words written so far; the word at address a, when never
\* written, holds what the memory was filled with: fill * (a + 1)
RamRead(m, a) == IF a \in DOMAIN m.RAM THEN m.RAM[a] ELSE Mod16(m.fill * (a + 1))

RamWrite(ram, a, v) == [x \in (DOMAIN ram) \cup {a} |-> IF x = a THEN v ELSE ram[x]]

HasDest(dest, r) ==
    CASE r = "A" -> dest \in {"A", "AM", "ADM"}
      [] r = "D" -> dest \in {"D", "ADM"}
      [] r = "M" -> dest \in {"M", "AM", "ADM"}

\* one C-instruction: the ALU output goes to every destination named, M being
\* the word addressed by A before the instruction; a jump goes to that A
ExecC(m, c) ==
    LET v == Comp(c[2], m.A, m.D, RamRead(m, m.A))
    IN [m EXCEPT !.A = IF HasDest(c[1], "A") THEN v ELSE m.A,
                 !.D = IF HasDest(c[1], "D") THEN v ELSE m.D,
                 !.RAM = IF HasDest(c[1], "M") THEN RamWrite(m.RAM, m.A, v) ELSE m.RAM,
                 !.PC = IF Jumps(c[3], v) THEN m.A ELSE m.PC + 1]

\* the machine states one instruction may lead to
ExecSet(m, ins) ==
    IF ins.t = "A" THEN {[m EXCEPT !.A = a, !.PC = m.PC + 1] : a \in ins.vals}
    ELSE {ExecC(m, ins.c)}

\* the machine before its first instruction
Boot(sp, lcl, arg, this, that, fill) ==
    [A |-> 0, D |-> 0, PC |-> 0, fill |-> fill,
     RAM |-> (0 :> sp) @@ (1 :> lcl) @@ (2 :> arg) @@ (3 :> this) @@ (4 :> that)]

-----------------------------------------------------------------------------
(* The translation loop of main as one function: every line parsed with    *)
(* its 0-based index and generated in order, the two globals threaded      *)
(* through.  lines[k] is a decoded line, [file, line].                      *)

RECURSIVE TranslateFrom(_, _, _, _)
TranslateFrom(lines, k, cfn, ri) ==
    IF k > Len(lines) THEN <<>>
    ELSE LET p == parseInstruction(k - 1, lines[k].file, lines[k].line)
             g == GenAsm(p.ins, cfn, ri)
         IN IF p.kind # "ok" THEN <<>>
            ELSE g.lines \o TranslateFrom(lines, k + 1, g.cfn, g.ri)

\* the two globals after main's loop has run from command k on
RECURSIVE GlobalsFrom(_, _, _, _)
GlobalsFrom(lines, k, cfn, ri) ==
    IF k > Len(lines) THEN [cfn |-> cfn, ri |-> ri]
    ELSE LET p == parseInstruction(k - 1, lines[k].file, lines[k].line)
             g == GenAsm(p.ins, cfn, ri)
         IN IF p.kind # "ok" THEN [cfn |-> cfn, ri |-> ri]
            ELSE GlobalsFrom(lines, k + 1, g.cfn, g.ri)

-----------------------------------------------------------------------------
(* The machine runs: a small program is translated, assembled and executed *)
(* one instruction at a time.                                               *)

MaxArgs == 2      \* argument counts 0..MaxArgs
MaxLocals == 2    \* local counts 0..MaxLocals
MaxOffset == 2    \* segment offsets 0..MaxOffset (as far as the segment has)

S_f == <<"f">>
S_END == <<"E","N","D">>
S_Main == <<"M","a","i","n">>

Line1(w) == w
Line2(w, a) == w \o <<" ">> \o a
Line3(w, a, n) == w \o <<" ">> \o a \o <<" ">> \o Itoa(n)

InFile(file, ls) == [k \in 1..Len(ls) |-> [file |-> file, line |-> ls[k]]]

\* the words a function body leaves on the stack in the call scenario, by the
\* commands that produce them
Bodies == {<<Line3(W_push, W_constant, 0)>>,
           <<Line3(W_push, W_constant, 7)>>,
           <<Line3(W_push, W_constant, 32767)>>,
           <<Line3(W_push, W_constant, 7), Line1(W_not)>>,
           <<Line3(W_push, W_constant, 0), Line1(W_not)>>}

BodyValue(b) ==
    LET c == Atoi(Split(b[1], <<" ">>)[3]).val
    IN IF Len(b) = 1 THEN c ELSE Not16(c)

\* call f N, a halt loop at the return point, then f with K locals
CallProgram(N, K, body) ==
    <<Line3(W_call, S_f, N), Line2(W_label, S_END), Line2(W_goto, S_END),
      Line3(W_function, S_f, K)>> \o body \o <<Line1(W_return)>>

MemSegments == {SegmentTypeLocal, SegmentTypeArgument, SegmentTypeThis, SegmentTypeThat,
                SegmentTypeStatic, SegmentTypeTemp, SegmentTypePointer}

SegmentWord(st) ==
    CASE st = SegmentTypeConstant -> W_constant [] st = SegmentTypeLocal -> W_local
      [] st = SegmentTypeArgument -> W_argument [] st = SegmentTypeThis -> W_this
      [] st = SegmentTypeThat -> W_that [] st = SegmentTypeStatic -> W_static
      [] st = SegmentTypeTemp -> W_temp [] st = SegmentTypePointer -> W_pointer

\* the offsets a segment has, up to MaxOffset
ValidOffsets(st) ==
    CASE st = SegmentTypePointer -> {x \in 0..MaxOffset : x <= 1}
      [] st = SegmentTypeTemp -> {x \in 0..MaxOffset : x <= 7}
      [] OTHER -> 0..MaxOffset

PushPopProgram(st, off) ==
    <<Line3(W_push, SegmentWord(st), off), Line3(W_pop, SegmentWord(st), off)>>

BinaryOps == {ALTypeAdd, ALTypeSub, ALTypeAnd, ALTypeOr}
ArithConstants == {0, 7, 8, 32767}

ArithProgram(a, b, op, off) ==
    <<Line3(W_push, W_constant, a), Line3(W_push, W_constant, b),
      Line1(ALTypeString(op)), Line3(W_pop, W_local, off)>>

\* the operands of the comparisons: a constant, negated or not
Operands == {<<0, FALSE>>, <<7, FALSE>>, <<32767, FALSE>>, <<1, TRUE>>, <<32767, TRUE>>}
OperandValue(o) == IF o[2] THEN 0 - o[1] ELSE o[1]
PushOperand(o) ==
    <<Line3(W_push, W_constant, o[1])>> \o (IF o[2] THEN <<Line1(W_neg)>> ELSE <<>>)

ComparisonOps == {ALTypeEq, ALTypeGt, ALTypeLt}

\* x, y pushed, then the comparison
ComparisonProgram(x, y, op) ==
    PushOperand(x) \o PushOperand(y) \o <<Line1(ALTypeString(op))>>

StackBases == {256, 261}
LocalBases == {256, 300, 1015}
Fills == {0, 3}

\* what a scenario fixes: the program and the machine it starts on
Scenario(kind, prog, s, lcl, fill, N, K, v, st, off, a, b, op) ==
    [kind |-> kind, prog |-> prog, s |-> s, lcl |-> lcl, arg |-> 400,
     this |-> 3000, that |-> 3010, fill |-> fill,
     N |-> N, K |-> K, v |-> v, st |-> st, off |-> off, a |-> a, b |-> b, op |-> op]

CallScenarios ==
    {Scenario("call", CallProgram(N, K, body), s, lcl, fill, N, K, BodyValue(body),
              "", 0, 0, 0, "") :
        N \in 0..MaxArgs, K \in 0..MaxLocals, body \in Bodies,
        s \in StackBases, lcl \in LocalBases, fill \in Fills}

PushPopScenarios ==
    UNION {{Scenario("pushpop", PushPopProgram(st, off), s, lcl, fill, 0, 0, 0,
                     st, off, 0, 0, "") :
               off \in ValidOffsets(st), s \in StackBases, lcl \in LocalBases, fill \in Fills} :
           st \in MemSegments}

ArithScenarios ==
    {Scenario("arith", ArithProgram(a, b, op, off), s, lcl, 0, 0, 0, 0,
              SegmentTypeLocal, off, a, b, op) :
        a \in ArithConstants, b \in ArithConstants, op \in BinaryOps,
        off \in 0..MaxOffset, s \in StackBases, lcl \in LocalBases}

ComparisonScenarios ==
    {Scenario("compare", ComparisonProgram(x, y, op), s, 300, fill, 0, 0, 0,
              "", 0, OperandValue(x), OperandValue(y), op) :
        x \in Operands, y \in Operands, op \in ComparisonOps, s \in StackBases,
        fill \in Fills}

Scenarios == CallScenarios \cup PushPopScenarios \cup ArithScenarios
             \cup ComparisonScenarios

\* the scenario loaded: its program translated as main translates a single
\* file without entry point (no bootstrap, currentFunctionName "LABEL",
\* retIndex 1), then assembled
Load(sc) ==
    LET asm == TranslateFrom(InFile(S_Main, sc.prog), 1, S_LABEL, 1)
        one(S) == IF Cardinality(S) = 1 THEN CHOOSE x \in S : TRUE ELSE -1
    IN [kind |-> sc.kind, s |-> sc.s, lcl |-> sc.lcl, arg |-> sc.arg, this |-> sc.this,
        that |-> sc.that, N |-> sc.N, K |-> sc.K, v |-> sc.v, st |-> sc.st,
        off |-> sc.off, a |-> sc.a, b |-> sc.b, op |-> sc.op,
        rom |-> Assemble(asm),
        retAddr |-> one(LabelAddrs(asm, RetAddrLabel(S_LABEL, 1))),
        fAddr |-> one(LabelAddrs(asm, S_f)),
        mid |-> Len(Assemble(TranslateFrom(InFile(S_Main, <<sc.prog[1]>>), 1, S_LABEL, 1))),
        bodyAddr |-> IF sc.kind = "call"
                     THEN Len(SelectSeq(TranslateFrom(InFile(S_Main, SubSeq(sc.prog, 1, 4)),
                                                      1, S_LABEL, 1), IsInstr))
                     ELSE -1,
        fnBlock |-> IF sc.kind = "call"
                    THEN TranslateFrom(InFile(S_Main, <<sc.prog[4]>>), 1, S_LABEL, 1)
                    ELSE <<>>,
        cfnAfter |-> GlobalsFrom(InFile(S_Main, sc.prog), 1, S_LABEL, 1).cfn,
        staticAddr |-> IF sc.st = SegmentTypeStatic
                       THEN one(Resolve(asm, S_Main \o <<".">> \o Itoa(sc.off)))
                       ELSE -1]

NoScenario == [kind |-> "none"]
NoCpu == [A |-> 0, D |-> 0, PC |-> 0, fill |-> 0, RAM |-> <<>>]
NoParse == [kind |-> "none"]

\* fmt.Println of a fixed text
Say(text) == [text |-> text, line |-> 0, expected |-> <<>>, got |-> <<>>]

\* no -c flag
NoCmpFile == [given |-> FALSE, opens |-> FALSE, lines |-> <<>>]

ParseIdle == parseLine = <<>> /\ parseRes = NoParse

\* the variables of main's run, while something else is modelled
MainIdle ==
    /\ srcFiles = <<>> /\ fileWithSysInit = 0 /\ instructionsLines = <<>>
    /\ resultLines = <<>> /\ i = 0 /\ currentFunctionName = S_LABEL /\ retIndex = 1
    /\ scanOrder = <<>> /\ exitCode = -1 /\ dst = [exists |-> FALSE, lines |-> <<>>]
    /\ dstBefore = dst
    /\ stdout = Say("") /\ cmpFile = NoCmpFile /\ openHandles = {}
    /\ emitLog = <<>>

InitMachine ==
    /\ \E sc \in Scenarios :
         /\ scen = Load(sc)
         /\ cpu = Boot(sc.s, sc.lcl, sc.arg, sc.this, sc.that, sc.fill)
    /\ pc = "run"
    /\ MainIdle /\ ParseIdle

\* the CPU executes the instruction at PC
Step ==
    /\ pc = "run"
    /\ cpu.PC < Len(scen.rom)
    /\ \E m \in ExecSet(cpu, scen.rom[cpu.PC + 1]) : cpu' = m
    /\ UNCHANGED <<pc, scen, mainVars, parseVars>>

\* PC has run past the last instruction: the program is over
Halt ==
    /\ pc = "run"
    /\ cpu.PC >= Len(scen.rom)
    /\ pc' = "halted"
    /\ UNCHANGED <<machineVars, mainVars, parseVars>>

NextMachine == Step \/ Halt

SpecMachine == InitMachine /\ [][NextMachine]_vars

\* the registers of the machine
SP == RamRead(cpu, 0)
LCL == RamRead(cpu, 1)
ARG == RamRead(cpu, 2)
THIS == RamRead(cpu, 3)
THAT == RamRead(cpu, 4)

-----------------------------------------------------------------------------
(* Properties of the emitted code, on the machine.                         *)

\* the machine as the scenario started it
Boot0 == Boot(scen.s, scen.lcl, scen.arg, scen.this, scen.that, cpu.fill)

\* the four segment base registers hold what they held at the start
BasesKept == LCL = scen.lcl /\ ARG = scen.arg /\ THIS = scen.this /\ THAT = scen.that

\* C1: call f N, function f K, a body leaving v, return: once control is at
\* the call's return-address label, SP is s - N + 1, RAM[s - N] is v and
\* LCL, ARG, THIS, THAT are what they were before the call (N = 0 included);
\* the run of a call never falls off the end of the program.
C1_CallReturnRoundTrip ==
    scen.kind = "call" =>
        /\ pc # "halted"
        /\ cpu.PC = scen.retAddr =>
              /\ SP = scen.s - scen.N + 1
              /\ RamRead(cpu, scen.s - scen.N) = scen.v
              /\ BasesKept

C1_Witness ==
    /\ scen.kind = "call" /\ cpu.PC = scen.retAddr
    /\ scen.N = 0 /\ scen.K = MaxLocals /\ scen.v = 65528
    /\ SP = scen.s + 1 /\ RamRead(cpu, scen.s) = 65528 /\ BasesKept

\* C2 as stated: on entry to f, ARG is (SP when the call started) - 5 - N.
C2_ArgFromCallTimeSP ==
    (scen.kind = "call" /\ cpu.PC = scen.fAddr) => ARG = scen.s - 5 - scen.N

\* C2, amended: on entry to f, ARG is (SP after the call has pushed its five
\* frame words) - 5 - N, which is (SP when the call started) - N.
C2_ArgFromFrameSP ==
    (scen.kind = "call" /\ cpu.PC = scen.fAddr) =>
        /\ SP = scen.s + 5
        /\ ARG = SP - 5 - scen.N
        /\ ARG = scen.s - scen.N

C2_Witness ==
    /\ scen.kind = "call" /\ cpu.PC = scen.fAddr
    /\ scen.N = MaxArgs /\ scen.s = 256 /\ ARG = 256 - MaxArgs

\* the RAM address that (segment, offset) names in the push/pop scenario
TargetAddr ==
    CASE scen.st = SegmentTypeLocal -> scen.lcl + scen.off
      [] scen.st = SegmentTypeArgument -> scen.arg + scen.off
      [] scen.st = SegmentTypeThis -> scen.this + scen.off
      [] scen.st = SegmentTypeThat -> scen.that + scen.off
      [] scen.st = SegmentTypeTemp -> 5 + scen.off
      [] scen.st = SegmentTypePointer -> 3 + scen.off
      [] scen.st = SegmentTypeStatic -> scen.staticAddr

\* C7: push seg i then pop seg i, for the seven memory segments: after the
\* push the word of (seg, i) is on top of the stack and SP is one higher;
\* after the pop SP is what it was, (seg, i) holds the word it held, and the
\* segment base registers are unchanged.
C7_PushPopRoundTrip ==
    scen.kind = "pushpop" =>
        /\ (pc = "run" /\ cpu.PC = scen.mid) =>
              /\ SP = scen.s + 1
              /\ RamRead(cpu, scen.s) = RamRead(Boot0, TargetAddr)
        /\ pc = "halted" =>
              /\ SP = scen.s
              /\ RamRead(cpu, TargetAddr) = RamRead(Boot0, TargetAddr)
              /\ BasesKept

C7_Witness ==
    /\ scen.kind = "pushpop" /\ pc = "halted"
    /\ scen.st = SegmentTypeLocal /\ scen.off = 1 /\ cpu.fill = 3
    /\ scen.lcl = 300 /\ RamRead(cpu, 301) = 906 /\ RamRead(cpu, scen.s) = 906
    /\ SP = scen.s

\* what a binary operator computes on two words
BinaryResult(op, a, b) ==
    CASE op = ALTypeAdd -> (a + b) % 65536
      [] op = ALTypeSub -> (a - b) % 65536
      [] op = ALTypeAnd -> And16(a, b)
      [] op = ALTypeOr -> Or16(a, b)

\* C8: push constant a, push constant b, op, pop local i from SP = s and
\* LCL = l ends with RAM[l + i] = a op b (mod 2^16) and SP = s, for add, sub,
\* and, or.
C8_ArithmeticEndToEnd ==
    (scen.kind = "arith" /\ pc = "halted") =>
        /\ RamRead(cpu, scen.lcl + scen.off) = BinaryResult(scen.op, scen.a, scen.b)
        /\ SP = scen.s

C8_Witness ==
    /\ scen.kind = "arith" /\ pc = "halted"
    /\ scen.a = 7 /\ scen.b = 8 /\ scen.op = ALTypeAdd /\ scen.off = 0
    /\ scen.s = 256 /\ scen.lcl = 300
    /\ RamRead(cpu, 300) = 15 /\ SP = 256

-----------------------------------------------------------------------------
(* parseInstruction on its own: one line, as main hands it over (trimmed,  *)
(* its tokens separated by single spaces), is parsed.                       *)

MaxTokens == 4    \* lines of 1..MaxTokens tokens

T_PUSH == <<"P","U","S","H">>
T_Pop == <<"P","o","p">>
T_ADD == <<"A","D","D">>
T_Eq == <<"E","q">>
T_Return == <<"R","e","t","u","r","n">>
T_CONSTANT == <<"C","O","N","S","T","A","N","T">>
T_Local == <<"L","o","c","a","l">>
T_bogus == <<"b","o","g","u","s">>
T_foo == <<"f","o","o">>

\* the words of the language: the nine operators and the eight other commands
ALWords == {W_add, W_sub, W_neg, W_eq, W_gt, W_lt, W_and, W_or, W_not}
CommandWords == {W_push, W_pop, W_label, W_goto, W_if_goto, W_function, W_return, W_call}
SegmentWords == {W_constant, W_local, W_argument, W_this, W_that, W_static, W_temp, W_pointer}

\* tokens by position: every word, some of them in another letter case, and
\* tokens that are no word at all
FirstTokens == ALWords \cup CommandWords \cup {T_PUSH, T_Pop, T_ADD, T_Eq, T_Return, T_bogus}
SecondTokens == SegmentWords \cup {T_CONSTANT, T_Local, T_foo, <<>>}
ThirdTokens == {<<"0">>, <<"2">>, <<"-","1">>, <<"x">>}
ExtraTokens == {<<"9">>}

RECURSIVE Join(_)
Join(toks) == IF Len(toks) = 1 THEN toks[1]
              ELSE toks[1] \o <<" ">> \o Join(Tail(toks))

RECURSIVE TokenLists(_)
TokenLists(n) ==
    IF n = 1 THEN {<<a>> : a \in FirstTokens}
    ELSE IF n = 2 THEN {<<a, b>> : a \in FirstTokens, b \in SecondTokens}
    ELSE IF n = 3 THEN {<<a, b, c>> : a \in FirstTokens, b \in SecondTokens, c \in ThirdTokens}
    ELSE {l \o <<x>> : l \in TokenLists(n - 1), x \in ExtraTokens}

ParseLines == UNION {{Join(l) : l \in TokenLists(n)} : n \in 1..MaxTokens}

MachineIdle == cpu = NoCpu /\ scen = NoScenario

InitParse ==
    /\ parseLine \in ParseLines
    /\ parseRes = NoParse
    /\ pc = "parse"
    /\ MainIdle /\ MachineIdle

\* the call parseInstruction(i, fileName, line) of main's loop
Parse ==
    /\ pc = "parse"
    /\ parseRes' = parseInstruction(0, S_Main, parseLine)
    /\ pc' = "parsed"
    /\ UNCHANGED <<parseLine, machineVars, mainVars>>

NextParse == Parse

SpecParse == InitParse /\ [][NextParse]_vars

-----------------------------------------------------------------------------
(* Properties of parseInstruction.                                         *)

\* the tokens of the parsed line
Tokens == Split(parseLine, <<" ">>)

\* the number of tokens a command word takes, the word included
Arity(w) ==
    IF w \in ALWords \cup {W_return} THEN 1
    ELSE IF w \in {W_label, W_goto, W_if_goto} THEN 2
    ELSE 3

\* C9: a line that starts with a word of the language and has another number
\* of tokens than the word takes makes parseInstruction return an error (and
\* no Instruction): it is neither accepted nor does it crash the parser.
C9_ArityViolationIsError ==
    (/\ pc = "parsed"
     /\ Tokens[1] \in ALWords \cup CommandWords
     /\ Len(Tokens) # Arity(Tokens[1]))
    => parseRes.kind = "error"

\* the word a first token is taken for: an operator only as written and alone
\* on its line, a command in any letter case; <<>> when it is taken for none
TakenFor(toks) ==
    IF Len(toks) = 1 /\ toks[1] \in ALWords THEN toks[1]
    ELSE IF ToLower(toks[1]) \in CommandWords THEN ToLower(toks[1])
    ELSE <<>>

\* C10 as stated: a first token that is not, character for character, a word
\* of the language, or a push/pop segment token that is not, character for
\* character, a segment name, gets the line rejected with an error.
C10_ExactMatchOnly ==
    pc = "parsed" =>
        /\ Tokens[1] \notin ALWords \cup CommandWords => parseRes.kind = "error"
        /\ (/\ Tokens[1] \in {W_push, W_pop}
            /\ Len(Tokens) >= 2
            /\ Tokens[2] \notin SegmentWords) => parseRes.kind = "error"

\* C10, amended: the operators are matched as written, the eight commands and
\* the segment names after lower-casing.  A line whose first token is taken
\* for no word is rejected with an error, and so is a push/pop line whose
\* segment token, lower-cased, is no segment name; an accepted line has the
\* command type (operator, segment) its tokens are taken for; and a well-formed
\* push/pop is accepted in any letter case of its command and segment tokens.
C10_MatchAfterLowerCasing ==
    pc = "parsed" =>
        /\ TakenFor(Tokens) = <<>> => parseRes.kind = "error"
        /\ (/\ TakenFor(Tokens) \in {W_push, W_pop}
            /\ Len(Tokens) >= 2
            /\ ToLower(Tokens[2]) \notin SegmentWords) => parseRes.kind = "error"
        /\ parseRes.kind = "ok" =>
              /\ TakenFor(Tokens) # <<>>
              /\ IF TakenFor(Tokens) \in ALWords
                 THEN /\ parseRes.ins.CommandType = CommandTypeArithmetic
                      /\ ALTypeString(parseRes.ins.ALType) = Tokens[1]
                 ELSE ToLower(Tokens[1]) =
                         CHOOSE w \in CommandWords : CommandTypeOf(w) = parseRes.ins.CommandType
              /\ TakenFor(Tokens) \in {W_push, W_pop} =>
                    SegmentWord(parseRes.ins.SegmentType) = ToLower(Tokens[2])
        /\ (/\ TakenFor(Tokens) \in {W_push, W_pop}
            /\ Len(Tokens) = 3
            /\ ToLower(Tokens[2]) \in SegmentWords
            /\ IsNumeric(Tokens[3])) => parseRes.kind = "ok"

C10_Witness ==
    /\ pc = "parsed"
    /\ parseLine = T_ADD
    /\ parseRes.kind = "error"

-----------------------------------------------------------------------------
(* The run of main over the source files: the search for the entry point,  *)
(* the reading of the files in order, the bootstrap, the translation loop   *)
(* and the write of the destination file.                                   *)

MaxCmds == 4      \* source lines of one input, all files together
MaxFiles == 2     \* source files of one input

S_slashes == <<"/","/">>
S_functionSysInit0 ==
    <<"f","u","n","c","t","i","o","n"," ","S","y","s",".","i","n","i","t"," ","0">>

\* the names filepath.Glob returns for a directory, in its (sorted) order
FileNames == << <<"p","/","A",".","v","m">>, <<"p","/","B",".","v","m">>,
                <<"p","/","C",".","v","m">>, <<"p","/","D",".","v","m">> >>

\* filepath.Ext: the suffix that starts at the last dot, "" without a dot
Ext(name) ==
    LET dots == {k \in 1..Len(name) : name[k] = "."}
    IN IF dots = {} THEN <<>>
       ELSE SubSeq(name, CHOOSE k \in dots : \A d \in dots : d <= k, Len(name))

\* filepath.Base of a path that ends in no slash: what follows its last slash
Base(path) ==
    LET slashes == {k \in 1..Len(path) : path[k] = "/"}
    IN IF slashes = {} THEN path
       ELSE SubSeq(path, (CHOOSE k \in slashes : \A d \in slashes : d <= k) + 1, Len(path))

\* strings.TrimSuffix
TrimSuffix(s, suf) ==
    IF Len(s) >= Len(suf) /\ SubSeq(s, Len(s) - Len(suf) + 1, Len(s)) = suf
    THEN SubSeq(s, 1, Len(s) - Len(suf)) ELSE s

\* strings.ReplaceAll(s, " ", "_")
SpacesToUnderscores(s) == [k \in 1..Len(s) |-> IF s[k] = " " THEN "_" ELSE s[k]]

encodeLineFileName(fileName, line) ==
    SpacesToUnderscores(TrimSuffix(Base(fileName), Ext(fileName))) \o <<"#">> \o line

\* decodeLineFileName, as [file, line]
decodeLineFileName(line) ==
    LET parts == Split(line, <<"#">>)
    IN IF Len(parts) # 2 THEN [file |-> <<>>, line |-> <<>>]
       ELSE [file |-> parts[1], line |-> TrimSpace(parts[2])]

removeCommentsAndSpaces(line) == TrimSpace(Split(line, S_slashes)[1])

\* the test of the entry-point search on one raw line
IsSysInitLine(line) ==
    /\ ~HasPrefix(line, S_slashes)
    /\ TrimSpace(line) # <<>>
    /\ Contains(line, S_functionSysInit0)

\* the entry-point search: the first file with such a line, 0 (nil) if none
FindSysInit(files) ==
    LET hits == {k \in 1..Len(files) :
                    \E n \in 1..Len(files[k].lines) : IsSysInitLine(files[k].lines[n])}
    IN IF hits = {} THEN 0 ELSE CHOOSE k \in hits : \A h \in hits : k <= h

\* the order the files are read in: the file with the entry point last
ReadOrder(files, fws) ==
    IF Len(files) > 1
    THEN SelectSeq([k \in 1..Len(files) |-> k], LAMBDA k : k # fws)
         \o (IF fws # 0 THEN <<fws>> ELSE <<>>)
    ELSE <<1>>

\* the read loop over one file: its lines cleaned, the empty ones dropped, the
\* others tagged with the file's name
RECURSIVE ReadFile(_, _)
ReadFile(file, n) ==
    IF n > Len(file.lines) THEN <<>>
    ELSE LET line == removeCommentsAndSpaces(file.lines[n])
         IN (IF line = <<>> THEN <<>> ELSE <<encodeLineFileName(file.name, line)>>)
            \o ReadFile(file, n + 1)

RECURSIVE ReadFiles(_, _)
ReadFiles(files, order) ==
    IF order = <<>> THEN <<>>
    ELSE ReadFile(files[Head(order)], 1) \o ReadFiles(files, Tail(order))

\* the bootstrap code, given the two globals
BootstrapLines(cfn, ri) ==
    <<Comment("// Bootstrap code", <<>>),
      AI(Itoa(256)), CI("D=A"), AI(S_SP), CI("M=D"),
      Comment("/// call Sys.init 0", <<>>)>>
    \o genCall(S_SysInit, 0, cfn, ri)

\* what the destination file holds once it is written
Written(lines) == [exists |-> TRUE, lines |-> lines]

\* os.Exit(code) after the message is printed; a run-time panic prints its
\* message and ends the process with code 2
Exit(code, msg) == pc' = "exit" /\ exitCode' = code /\ stdout' = msg

Panic == Say("panic: runtime error: index out of range")

\* the handles: of the source files by index, of the destination file and of
\* the compare file
SrcHandle(k) == <<"src", k>>
DstHandle == <<"dst", 0>>
CmpHandle == <<"cmp", 0>>

\* a run-time panic in main: the deferred closes run, then the process ends
\* with code 2
PanicExit == Exit(2, Panic) /\ openHandles' = {}

\* lines 167-190: the entry-point search, and the exit when several files
\* hold no entry point
DetectSysInit ==
    /\ pc = "scan"
    /\ fileWithSysInit' = FindSysInit(srcFiles)
    /\ IF fileWithSysInit' = 0 /\ Len(srcFiles) > 1
       THEN Exit(1, Say("Sys.init not found in any source file"))
       ELSE pc' = "openDst" /\ UNCHANGED <<exitCode, stdout>>
    /\ UNCHANGED <<srcFiles, cmpFile, dstBefore, openHandles, instructionsLines, resultLines, i,
                   currentFunctionName, retIndex, scanOrder, dst, emitLog, parseVars,
                   machineVars>>

\* the destination file created, and so emptied, whether it exists or not
OpenDstTruncating ==
    /\ pc = "openDst"
    /\ dst' = Written(<<>>)
    /\ openHandles' = openHandles \cup {DstHandle}
    /\ pc' = "read"
    /\ UNCHANGED <<srcFiles, cmpFile, dstBefore, fileWithSysInit, instructionsLines,
                   resultLines, i, currentFunctionName, retIndex, scanOrder, exitCode,
                   stdout, emitLog, parseVars, machineVars>>

\* lines 192-208: the destination file is created when it does not exist,
\* and opened for writing otherwise
OpenDst ==
    /\ pc = "openDst"
    /\ dst' = IF dst.exists THEN dst ELSE Written(<<>>)
    /\ openHandles' = openHandles \cup {DstHandle}
    /\ pc' = "read"
    /\ UNCHANGED <<srcFiles, cmpFile, dstBefore, fileWithSysInit, instructionsLines, resultLines, i,
                   currentFunctionName, retIndex, scanOrder, exitCode, stdout, emitLog,
                   parseVars, machineVars>>

\* lines 210-262: the files are read in order; srcFiles[0] of no file at all
\* panics, and no command at all is the exit "No source lines found"
ReadSources ==
    /\ pc = "read"
    /\ IF Len(srcFiles) = 0
       THEN /\ PanicExit
            /\ UNCHANGED <<scanOrder, instructionsLines>>
       ELSE /\ UNCHANGED openHandles
            /\ scanOrder' = ReadOrder(srcFiles, fileWithSysInit)
            /\ instructionsLines' = ReadFiles(srcFiles, scanOrder')
            /\ IF instructionsLines' = <<>>
               THEN Exit(1, Say("No source lines found"))
               ELSE pc' = "bootstrap" /\ UNCHANGED <<exitCode, stdout>>
    /\ UNCHANGED <<srcFiles, cmpFile, dstBefore, fileWithSysInit, resultLines, i,
                   currentFunctionName, retIndex, dst, emitLog, parseVars, machineVars>>

\* lines 264-277: the bootstrap code, when an entry point was found
Bootstrap ==
    /\ pc = "bootstrap"
    /\ IF fileWithSysInit # 0
       THEN /\ resultLines' = resultLines \o BootstrapLines(currentFunctionName, retIndex)
            /\ retIndex' = retIndex + 1
       ELSE UNCHANGED <<resultLines, retIndex>>
    /\ pc' = "translate"
    /\ UNCHANGED <<srcFiles, cmpFile, dstBefore, openHandles, fileWithSysInit, instructionsLines, i,
                   currentFunctionName, scanOrder, exitCode, stdout, dst, emitLog,
                   parseVars, machineVars>>

\* the symbols of the label declarations among some lines, in order
LabelsOf(lines) ==
    LET decls == SelectSeq(lines, LAMBDA l : l.t = "L")
    IN [k \in 1..Len(decls) |-> decls[k].sym]

\* the symbols of the "@..." lines among some lines, in order
LoadsOf(lines) ==
    LET as == SelectSeq(lines, LAMBDA l : l.t = "A")
    IN [k \in 1..Len(as) |-> as[k].sym]

\* the symbols some lines jump to: those loaded right before a jump
JumpTargets(lines) ==
    LET at == SelectSeq([k \in 1..Len(lines) |-> k],
                        LAMBDA k : /\ k < Len(lines)
                                   /\ lines[k].t = "A"
                                   /\ lines[k + 1].t = "C"
                                   /\ CDecode(lines[k + 1].text)[3] # "")
    IN [k \in 1..Len(at) |-> lines[at[k]].sym]

\* lines 279-292: one turn of the translation loop
TranslateCommand ==
    /\ pc = "translate"
    /\ i < Len(instructionsLines)
    /\ LET d == decodeLineFileName(instructionsLines[i + 1])
           p == parseInstruction(i, d.file, d.line)
           g == GenAsm(p.ins, currentFunctionName, retIndex)
       IN IF p.kind # "ok"
          THEN /\ IF p.kind = "panic" THEN PanicExit
                  ELSE Exit(2, Say("Error parsing instruction")) /\ UNCHANGED openHandles
               /\ UNCHANGED <<resultLines, i, currentFunctionName, retIndex, emitLog>>
          ELSE /\ resultLines' = resultLines \o g.lines
               /\ currentFunctionName' = g.cfn
               /\ retIndex' = g.ri
               /\ i' = i + 1
               /\ emitLog' = Append(emitLog,
                      [index |-> i, file |-> d.file, ct |-> p.ins.CommandType,
                       al |-> p.ins.ALType, arg1 |-> p.ins.Arg1,
                       cfn |-> currentFunctionName, labels |-> LabelsOf(g.lines),
                       jumps |-> JumpTargets(g.lines),
                       st |-> p.ins.SegmentType, loads |-> LoadsOf(g.lines)])
               /\ pc' = IF i' = Len(instructionsLines) THEN "write" ELSE "translate"
               /\ UNCHANGED <<exitCode, stdout, openHandles>>
    /\ UNCHANGED <<srcFiles, cmpFile, dstBefore, fileWithSysInit, instructionsLines, scanOrder, dst,
                   parseVars, machineVars>>

\* lines 294-300, writeLinesToDst: the file is truncated and the lines written
WriteDst ==
    /\ pc = "write"
    /\ dst' = Written(resultLines)
    /\ pc' = "compare"
    /\ stdout' = Say("Successfully wrote to destination file:")
    /\ UNCHANGED <<srcFiles, cmpFile, dstBefore, openHandles, fileWithSysInit, instructionsLines, resultLines, i,
                   currentFunctionName, retIndex, scanOrder, exitCode, emitLog,
                   parseVars, machineVars>>

\* a text of the generator, character by character
Chars(str) ==
    CASE str = "AM=M-1" -> <<"A","M","=","M","-","1">>
      [] str = "AM=M+1" -> <<"A","M","=","M","+","1">>
      [] str = "ADM=M-1" -> <<"A","D","M","=","M","-","1">>
      [] str = "D=M" -> <<"D","=","M">>
      [] str = "D=A" -> <<"D","=","A">>
      [] str = "A=M" -> <<"A","=","M">>
      [] str = "M=D" -> <<"M","=","D">>
      [] str = "A=A-1" -> <<"A","=","A","-","1">>
      [] str = "A=M-1" -> <<"A","=","M","-","1">>
      [] str = "A=D+M" -> <<"A","=","D","+","M">>
      [] str = "A=D+A" -> <<"A","=","D","+","A">>
      [] str = "A=D-A" -> <<"A","=","D","-","A">>
      [] str = "D=D+M" -> <<"D","=","D","+","M">>
      [] str = "D=D+A" -> <<"D","=","D","+","A">>
      [] str = "D=M-D" -> <<"D","=","M","-","D">>
      [] str = "D=A-D" -> <<"D","=","A","-","D">>
      [] str = "D=M+1" -> <<"D","=","M","+","1">>
      [] str = "M=D+M" -> <<"M","=","D","+","M">>
      [] str = "M=M-D" -> <<"M","=","M","-","D">>
      [] str = "M=D&M" -> <<"M","=","D","&","M">>
      [] str = "M=D|M" -> <<"M","=","D","|","M">>
      [] str = "M=D-M" -> <<"M","=","D","-","M">>
      [] str = "M=!M" -> <<"M","=","!","M">>
      [] str = "M=M+1" -> <<"M","=","M","+","1">>
      [] str = "M=0" -> <<"M","=","0">>
      [] str = "M=-1" -> <<"M","=","-","1">>
      [] str = "D;JEQ" -> <<"D",";","J","E","Q">>
      [] str = "D;JGT" -> <<"D",";","J","G","T">>
      [] str = "D;JLT" -> <<"D",";","J","L","T">>
      [] str = "D;JNE" -> <<"D",";","J","N","E">>
      [] str = "0;JMP" -> <<"0",";","J","M","P">>
      [] str = "// " ->
           <<"/","/"," ">>
      [] str = "/// " ->
           <<"/","/","/"," ">>
      [] str = " ; working with " ->
           <<" ",";"," ","w","o","r","k","i","n","g"," ","w","i","t","h"," ">>
      [] str = "// Bootstrap code" ->
           <<"/","/"," ","B","o","o","t","s","t","r","a","p"," ","c","o","d","e">>
      [] str = "/// call Sys.init 0" ->
           <<"/","/","/"," ","c","a","l","l"," ","S","y","s",".","i","n","i","t"," ","0">>
      [] str = "/// call ; working with " ->
           <<"/","/","/"," ","c","a","l","l"," ",";"," ","w","o","r","k","i","n","g"," ","w","i","t","h"," ">>
      [] str = "/// call ; working with return address " ->
           <<"/","/","/"," ","c","a","l","l"," ",";"," ","w","o","r","k","i","n","g"," ","w","i","t","h"," ","r","e","t","u","r","n"," ","a","d","d","r","e","s","s"," ">>
      [] str = "/// call ; goto function " ->
           <<"/","/","/"," ","c","a","l","l"," ",";"," ","g","o","t","o"," ","f","u","n","c","t","i","o","n"," ">>
      [] str = "/// call ; ARG = SP - 5 - nArgs" ->
           <<"/","/","/"," ","c","a","l","l"," ",";"," ","A","R","G"," ","="," ","S","P"," ","-"," ","5"," ","-"," ","n","A","r","g","s">>
      [] str = "/// call ; LCL = SP" ->
           <<"/","/","/"," ","c","a","l","l"," ",";"," ","L","C","L"," ","="," ","S","P">>
      [] str = "/// return ; RAM[ARG] = pop() = RAM[SP-1]" ->
           <<"/","/","/"," ","r","e","t","u","r","n"," ",";"," ","R","A","M","[","A","R","G","]"," ","="," ","p","o","p","(",")"," ","="," ","R","A","M","[","S","P","-","1","]">>
      [] str = "/// return ; SP = ARG + 1" ->
           <<"/","/","/"," ","r","e","t","u","r","n"," ",";"," ","S","P"," ","="," ","A","R","G"," ","+"," ","1">>
      [] str = "/// return ; endFrame = LCL" ->
           <<"/","/","/"," ","r","e","t","u","r","n"," ",";"," ","e","n","d","F","r","a","m","e"," ","="," ","L","C","L">>
      [] str = "/// return ; goto caller" ->
           <<"/","/","/"," ","r","e","t","u","r","n"," ",";"," ","g","o","t","o"," ","c","a","l","l","e","r">>
      [] str = "/// return ; retAddr = D = RAM[endFrame - 5]" ->
           <<"/","/","/"," ","r","e","t","u","r","n"," ",";"," ","r","e","t","A","d","d","r"," ","="," ","D"," ","="," ","R","A","M","[","e","n","d","F","r","a","m","e"," ","-"," ","5","]">>

\* a comment line as fmt.Sprintf writes it
RenderComment(f, args) ==
    CASE f = "// %s" -> Chars("// ") \o args
      [] f = "/// %s ; working with %s" ->
           Chars("/// ") \o args[1] \o Chars(" ; working with ") \o args[2]
      [] f = "/// call ; working with %s" -> Chars("/// call ; working with ") \o args
      [] f = "/// call ; working with return address %s" ->
           Chars("/// call ; working with return address ") \o args
      [] f = "/// call ; goto function %s" -> Chars("/// call ; goto function ") \o args
      [] OTHER -> Chars(f)

\* an emitted line as the string the generator appends
Render(l) ==
    CASE l.t = "A" -> <<"@">> \o l.sym
      [] l.t = "L" -> <<"(">> \o l.sym \o <<")">>
      [] l.t = "C" -> Chars(l.text)
      [] l.t = "//" -> RenderComment(l.text, l.sym)

RenderAll(lines) == [k \in 1..Len(lines) |-> Render(lines[k])]

\* the lines of the compare file as the scanner loop collects them
TrimAll(lines) == [k \in 1..Len(lines) |-> TrimSpace(lines[k])]

\* the comparison loop, reporting line 1 whichever line differs
FirstMismatchAny(cmpLines, out) ==
    IF \E k \in 1..Len(cmpLines) : cmpLines[k] # out[k] THEN 1 ELSE 0

\* the comparison loop: the 1-based index it stops at, 0 when it runs through
FirstMismatch(cmpLines, out) ==
    LET diff == {k \in 1..Len(cmpLines) : cmpLines[k] # out[k]}
    IN IF diff = {} THEN 0 ELSE CHOOSE k \in diff : \A d \in diff : k <= d

\* lines 302-339: without -c main returns; with it the compare file is read
\* and compared with resultLines
Compare ==
    /\ pc = "compare"
    /\ IF ~cmpFile.given
       THEN pc' = "done" /\ exitCode' = 0 /\ openHandles' = {} /\ UNCHANGED stdout
       ELSE IF ~cmpFile.opens
       THEN Exit(2, Say("Error opening compare file")) /\ UNCHANGED openHandles
       ELSE LET cmpLines == TrimAll(cmpFile.lines)
                out == RenderAll(resultLines)
                k == FirstMismatch(cmpLines, out)
            IN IF Len(cmpLines) # Len(out)
               THEN /\ Exit(2, Say("Compare file has a different number of lines than the source file"))
                    /\ openHandles' = openHandles \cup {CmpHandle}
               ELSE IF k # 0
               THEN /\ Exit(2, [text |-> "Error in file %s:%d %s", line |-> k,
                                expected |-> cmpLines[k], got |-> out[k]])
                    /\ openHandles' = openHandles \cup {CmpHandle}
               ELSE /\ pc' = "done" /\ exitCode' = 0
                    /\ stdout' = Say("Successfully compared files")
                    /\ openHandles' = {}
    /\ UNCHANGED <<srcFiles, cmpFile, dstBefore, fileWithSysInit, instructionsLines, resultLines, i,
                   currentFunctionName, retIndex, scanOrder, dst, emitLog,
                   parseVars, machineVars>>

Next == DetectSysInit \/ OpenDst \/ ReadSources \/ Bootstrap \/ TranslateCommand
        \/ WriteDst \/ Compare

\* the ways to cut a sequence into n consecutive pieces, empty ones included
RECURSIVE Cuts(_, _)
Cuts(s, n) ==
    IF n = 1 THEN {<<s>>}
    ELSE UNION {{<<SubSeq(s, 1, c)>> \o rest : rest \in Cuts(SubSeq(s, c + 1, Len(s)), n - 1)} :
                c \in 0..Len(s)}

\* the sequences of at most n lines of a pool
RECURSIVE LineSeqs(_, _)
LineSeqs(pool, n) ==
    IF n = 0 THEN {<<>>}
    ELSE LET shorter == LineSeqs(pool, n - 1)
         IN shorter \cup {Append(s, l) : s \in {x \in shorter : Len(x) = n - 1}, l \in pool}

\* the inputs: no file at all, or up to maxFiles files that hold up to
\* maxLines lines of the pool together
Inputs(pool, maxLines, maxFiles) ==
    {<<>>} \cup
    UNION {UNION {{[k \in 1..nf |-> [name |-> FileNames[k], lines |-> c[k]]] :
                      c \in Cuts(s, nf)} : s \in LineSeqs(pool, maxLines)} :
           nf \in 1..maxFiles}

\* main right after the source files are opened
InitMainOver(inputs) ==
    /\ srcFiles \in inputs
    /\ pc = "scan"
    /\ fileWithSysInit = 0
    /\ instructionsLines = <<>>
    /\ resultLines = <<>>
    /\ i = 0
    /\ currentFunctionName = S_LABEL
    /\ retIndex = 1
    /\ scanOrder = <<>>
    /\ exitCode = -1
    /\ stdout = Say("")
    /\ cmpFile = NoCmpFile
    /\ openHandles = {SrcHandle(k) : k \in 1..Len(srcFiles)}
    /\ dst = [exists |-> FALSE, lines |-> <<>>]
    /\ dstBefore = dst
    /\ emitLog = <<>>
    /\ ParseIdle /\ MachineIdle

S_L == <<"L">>
S_EQ_TRUE_1 == <<"E","Q","_","T","R","U","E",".","1">>

\* a comparison with the text of the entry-point declaration in its comment
S_eqCommented == W_eq \o <<" ">> \o S_slashes \o <<" ">> \o S_functionSysInit0

\* source lines for programs with functions, labels, jumps and comparisons
SourcePool == {Line3(W_function, S_f, 0), S_functionSysInit0, Line2(W_label, S_L),
               Line2(W_goto, S_L), Line1(W_eq), Line2(W_label, S_EQ_TRUE_1),
               S_eqCommented}

Init == InitMainOver(Inputs(SourcePool, MaxCmds, MaxFiles))

Spec == Init /\ [][Next]_vars

-----------------------------------------------------------------------------
(* Claims about the labels of one run and about the order of the modules.   *)

Log(k) == emitLog[k]
Logged == 1..Len(emitLog)
IsLabelCmd(e) == e.ct = CommandTypeLabel
IsFunctionCmd(e) == e.ct = CommandTypeFunction
IsJumpCmd(e) == e.ct \in {CommandTypeGOTO, CommandTypeIf}
IsComparison(e) == e.ct = CommandTypeArithmetic /\ e.al \in {ALTypeEq, ALTypeGt, ALTypeLt}

\* no label twice within one function, no function declared twice
WellFormedSoFar ==
    \A a, b \in Logged :
        a # b =>
          /\ ~(IsLabelCmd(Log(a)) /\ IsLabelCmd(Log(b))
               /\ Log(a).cfn = Log(b).cfn /\ Log(a).arg1 = Log(b).arg1)
          /\ ~(IsFunctionCmd(Log(a)) /\ IsFunctionCmd(Log(b))
               /\ Log(a).arg1 = Log(b).arg1)

\* C3: no two label declarations of the emitted program have the same text,
\* user labels, function entries, return addresses and comparison labels
\* taken together, for a program that declares no function twice and no
\* label twice within one function.
C3_NoDuplicateLabel ==
    WellFormedSoFar =>
        LET decls == LabelsOf(resultLines)
        IN \A a, b \in 1..Len(decls) : a # b => decls[a] # decls[b]

\* the command at position k lies in a declared function
InDeclaredFunction(k) ==
    \E f \in 1..(k - 1) : IsFunctionCmd(Log(f)) /\ Log(f).arg1 = Log(k).cfn

\* C4: the same label in two different functions is declared under two
\* different texts, and a goto or if-goto to a label of its own function
\* jumps to the text that label is declared under, which no other command
\* declares.
C4_LabelsScopedToFunction ==
    /\ \A a, b \in Logged :
          (/\ IsLabelCmd(Log(a)) /\ IsLabelCmd(Log(b))
           /\ InDeclaredFunction(a) /\ InDeclaredFunction(b)
           /\ Log(a).arg1 = Log(b).arg1
           /\ Log(a).cfn # Log(b).cfn)
          => Log(a).labels # Log(b).labels
    /\ \A g, a \in Logged :
          (/\ IsJumpCmd(Log(g)) /\ IsLabelCmd(Log(a))
           /\ InDeclaredFunction(a)
           /\ Log(g).cfn = Log(a).cfn /\ Log(g).arg1 = Log(a).arg1)
          => /\ Log(g).jumps = Log(a).labels
             /\ \A b \in Logged \ {a} :
                   \A n \in 1..Len(Log(b).labels) : Log(b).labels[n] # Log(a).labels[1]

S_TRUE == <<"_","T","R","U","E",".">>
S_FALSE == <<"_","F","A","L","S","E",".">>

\* the two label texts of the comparison e
ComparisonLabels(e) ==
    {ToUpper(ALTypeString(e.al)) \o S_TRUE \o Itoa(e.index),
     ToUpper(ALTypeString(e.al)) \o S_FALSE \o Itoa(e.index)}

\* C5: a comparison at index k declares the two labels <OP>_TRUE.k and
\* <OP>_FALSE.k and nothing else, no other command of the run declares a
\* label of either text, and no two commands of the run have the same index.
C5_ComparisonLabelsUnique ==
    /\ \A a \in Logged : Log(a).index = a - 1
    /\ \A a \in Logged :
          IsComparison(Log(a)) =>
             /\ Len(Log(a).labels) = 2
             /\ {Log(a).labels[1], Log(a).labels[2]} = ComparisonLabels(Log(a))
             /\ \A b \in Logged \ {a} :
                   \A n \in 1..Len(Log(b).labels) :
                       Log(b).labels[n] \notin ComparisonLabels(Log(a))

\* the module holds the command  function Sys.init 0
DeclaresSysInit(file) ==
    \E n \in 1..Len(file.lines) :
        removeCommentsAndSpaces(file.lines[n]) = S_functionSysInit0

EntryModules == {k \in 1..Len(srcFiles) : DeclaresSysInit(srcFiles[k])}

\* the name the lines of a module are tagged with
TagOf(file) == decodeLineFileName(encodeLineFileName(file.name, <<"x">>)).file

IsPrefixOf(p, s) == Len(p) <= Len(s) /\ SubSeq(s, 1, Len(p)) = p

\* C6: with two or more modules of which exactly one declares
\* function Sys.init 0, the output starts with the bootstrap (SP = 256, then
\* the call of Sys.init with 0 arguments) and the module with the entry
\* point is the last one read and the last one translated.
C6_BootstrapFirstEntryLast ==
    (/\ pc = "done"
     /\ Len(srcFiles) >= 2
     /\ Cardinality(EntryModules) = 1)
    => LET entry == CHOOSE k \in EntryModules : TRUE
       IN /\ IsPrefixOf(BootstrapLines(S_LABEL, 1), dst.lines)
          /\ scanOrder[Len(scanOrder)] = entry
          /\ emitLog[Len(emitLog)].file = TagOf(srcFiles[entry])

-----------------------------------------------------------------------------
(* Properties of parseInstruction: the numeric token and the error text.    *)

\* the tokens push, pop, function and call take a number after
NumericCommands == {W_push, W_pop, W_function, W_call}

\* C11: a push, pop, function or call line whose third token is no
\* non-negative decimal number is rejected with an error, and every accepted
\* Instruction has Arg2Val >= 0.
C11_NumericTokenNonNegative ==
    pc = "parsed" =>
        /\ (/\ ToLower(Tokens[1]) \in NumericCommands
            /\ Len(Tokens) = 3
            /\ ~IsNumeric(Tokens[3])) => parseRes.kind = "error"
        /\ parseRes.kind = "ok" => parseRes.ins.Arg2Val >= 0

\* the text of a format of parseInstruction's errors up to its verb
FormatText(f) ==
    CASE f = "invalid instruction length: %d" ->
           <<"i","n","v","a","l","i","d"," ","i","n","s","t","r","u","c","t","i","o","n"," ","l","e","n","g","t","h",":"," ">>
      [] f = "invalid command type: %s" ->
           <<"i","n","v","a","l","i","d"," ","c","o","m","m","a","n","d"," ","t","y","p","e",":"," ">>
      [] f = "invalid arg1 segment type: %s" ->
           <<"i","n","v","a","l","i","d"," ","a","r","g","1"," ","s","e","g","m","e","n","t"," ","t","y","p","e",":"," ">>
      [] f = "invalid arg1 return, no argument expected" ->
           <<"i","n","v","a","l","i","d"," ","a","r","g","1"," ","r","e","t","u","r","n",","," ","n","o"," ","a","r","g","u","m","e","n","t"," ","e","x","p","e","c","t","e","d">>
      [] f = "invalid arg2 value: %s" ->
           <<"i","n","v","a","l","i","d"," ","a","r","g","2"," ","v","a","l","u","e",":"," ">>

\* fmt.Errorf: the text of the error parseInstruction returned
ErrorText(res) == FormatText(res.fmt) \o res.arg

\* C12: every error returned for a malformed command carries the name of the
\* source module, the 0-based index of the command and the text of the
\* command.
C12_ErrorNamesModuleIndexLine ==
    (pc = "parsed" /\ parseRes.kind = "error") =>
        /\ Contains(ErrorText(parseRes), S_Main)
        /\ Contains(ErrorText(parseRes), Itoa(0))
        /\ Contains(ErrorText(parseRes), parseLine)

-----------------------------------------------------------------------------
(* Runs over modules with static variables and names that differ in a      *)
(* space and an underscore only.                                            *)

MaxStaticLines == 2    \* source lines of one module

\* the paths filepath.Glob returns for the directory, in its order
StaticNames == << <<"p","/","a"," ","b",".","v","m">>, <<"p","/","a","_","b",".","v","m">>,
                  <<"p","/","c",".","v","m">> >>

StaticPool == {Line3(W_push, W_static, 0), Line3(W_pop, W_static, 1), S_functionSysInit0}

\* one or two of the modules, each with up to MaxStaticLines lines
StaticInputs ==
    LET bodies == LineSeqs(StaticPool, MaxStaticLines)
        names == 1..Len(StaticNames)
        pairs == {q \in names \X names : q[1] < q[2]}
    IN {<<[name |-> StaticNames[a], lines |-> x]>> : a \in names, x \in bodies}
       \cup {<<[name |-> StaticNames[q[1]], lines |-> x],
               [name |-> StaticNames[q[2]], lines |-> y]>> :
                 q \in pairs, x \in bodies, y \in bodies}

InitStatic == InitMainOver(StaticInputs)

SpecStatic == InitStatic /\ [][Next]_vars

\* the module each translated command was read from, by position in the run
RECURSIVE SourceOf(_)
SourceOf(order) ==
    IF order = <<>> THEN <<>>
    ELSE [n \in 1..Len(ReadFile(srcFiles[Head(order)], 1)) |-> Head(order)]
         \o SourceOf(Tail(order))

IsStaticCmd(e) == e.ct \in {CommandTypePush, CommandTypePop} /\ e.st = SegmentTypeStatic

\* the symbols a command loads besides SP
StaticSymbolsOf(e) == {e.loads[n] : n \in 1..Len(e.loads)} \ {S_SP}

\* C13: two static accesses in two different modules of one run use
\* different symbols, whatever their offsets are: modules whose names become
\* equal by the replacement of spaces are rejected or kept apart.
C13_StaticPrivatePerModule ==
    \A a, b \in Logged :
        (/\ IsStaticCmd(Log(a)) /\ IsStaticCmd(Log(b))
         /\ SourceOf(scanOrder)[a] # SourceOf(scanOrder)[b])
        => StaticSymbolsOf(Log(a)) \cap StaticSymbolsOf(Log(b)) = {}

-----------------------------------------------------------------------------
(* The entry-point rule, the empty program and the comparison.              *)

\* C14: with two or more modules of which none declares the entry point the
\* run ends with exit code 1 before a command is translated and without any
\* output; with one module that does not declare it the run is not ended
\* for that reason and its output starts with no bootstrap.
C14_EntryPointRule ==
    EntryModules = {} =>
        /\ Len(srcFiles) >= 2 =>
              /\ pc \in {"scan", "exit"}
              /\ pc = "exit" => exitCode = 1
              /\ emitLog = <<>> /\ resultLines = <<>> /\ ~dst.exists
        /\ Len(srcFiles) = 1 =>
              /\ fileWithSysInit = 0
              /\ ~IsPrefixOf(BootstrapLines(S_LABEL, 1), resultLines)

-----------------------------------------------------------------------------
(* Runs with a compare file: one module, and a compare file that is the    *)
(* expected output or differs from it in some lines or in its length.       *)

MaxCmpCmds == 1    \* source lines of the module

ComparePool == {Line3(W_push, W_constant, 7), Line1(W_add), Line2(W_label, S_L)}

S_x == <<"x">>

\* a compare-file line with blanks around it
Padded(line) == <<" ">> \o line \o <<" ", "\t">>

\* the compare files tried against the output `out`: the output itself, with
\* blanks around a line, with one or two lines replaced, shorter, longer,
\* empty, and none
CompareFiles(out) ==
    LET n == Len(out)
        given(lines) == [given |-> TRUE, opens |-> TRUE, lines |-> lines]
    IN {NoCmpFile, [given |-> TRUE, opens |-> FALSE, lines |-> <<>>],
        given(out), given(<<>>), given(SubSeq(out, 1, n - 1)), given(Append(out, S_x))}
       \cup {given([out EXCEPT ![k] = Padded(out[k])]) : k \in 1..n}
       \cup {given([out EXCEPT ![k] = S_x]) : k \in 1..n}
       \cup {given([out EXCEPT ![k] = S_x, ![n] = S_x]) : k \in 1..n}

\* what main emits for one module without entry point
ExpectedOutput(file) ==
    RenderAll(TranslateFrom(InFile(TagOf(file), TrimAll(file.lines)), 1, S_LABEL, 1))

InitCompare ==
    /\ \E ls \in LineSeqs(ComparePool, MaxCmpCmds) \ {<<>>} :
         /\ srcFiles = <<[name |-> FileNames[1], lines |-> ls]>>
         /\ cmpFile \in CompareFiles(ExpectedOutput(srcFiles[1]))
    /\ pc = "scan"
    /\ fileWithSysInit = 0
    /\ instructionsLines = <<>>
    /\ resultLines = <<>>
    /\ i = 0
    /\ currentFunctionName = S_LABEL
    /\ retIndex = 1
    /\ scanOrder = <<>>
    /\ exitCode = -1
    /\ stdout = Say("")
    /\ openHandles = {SrcHandle(1)}
    /\ dst = [exists |-> FALSE, lines |-> <<>>]
    /\ dstBefore = dst
    /\ emitLog = <<>>
    /\ ParseIdle /\ MachineIdle

SpecCompare == InitCompare /\ [][Next]_vars

\* the comparison has been made
Compared == cmpFile.given /\ cmpFile.opens /\ pc \in {"done", "exit"}

\* the compare file has the lines of the output, blanks around them aside
SameLines ==
    /\ Len(cmpFile.lines) = Len(dst.lines)
    /\ \A k \in 1..Len(dst.lines) : TrimSpace(cmpFile.lines[k]) = Render(dst.lines[k])

\* C15: the output is accepted exactly if the compare file has as many lines
\* as the output and each of its lines, trimmed, is the output line at its
\* position; otherwise the run ends with exit code 2, and with equal line
\* counts it reports the 1-based number of the first differing line with
\* the expected and the actual text.
C15_CompareAcceptsIffEqual ==
    Compared =>
        /\ (pc = "done" /\ exitCode = 0) <=> SameLines
        /\ ~SameLines => pc = "exit" /\ exitCode = 2
        /\ (~SameLines /\ Len(cmpFile.lines) = Len(dst.lines)) =>
              /\ stdout.line \in 1..Len(dst.lines)
              /\ TrimSpace(cmpFile.lines[stdout.line]) # Render(dst.lines[stdout.line])
              /\ \A k \in 1..(stdout.line - 1) :
                    TrimSpace(cmpFile.lines[k]) = Render(dst.lines[k])
              /\ stdout.expected = TrimSpace(cmpFile.lines[stdout.line])
              /\ stdout.got = Render(dst.lines[stdout.line])

\* a compare file with as many lines as the output, the first of them equal
\* and a later one not, was compared
C15_Witness ==
    /\ Compared
    /\ Len(cmpFile.lines) = Len(dst.lines)
    /\ stdout.line > 1
    /\ exitCode = 2

\* no module holds a command once comments and blanks are removed
EmptyProgram == \A k \in 1..Len(srcFiles) : ReadFile(srcFiles[k], 1) = <<>>

\* C16: when no command remains in any module, no module at all included,
\* the run ends with the error "No source lines found", not with a crash, and
\* no line is emitted.
C16_EmptyProgramIsReported ==
    EmptyProgram =>
        /\ pc \notin {"bootstrap", "translate", "write", "compare", "done"}
        /\ resultLines = <<>>
        /\ pc = "exit" => exitCode = 1 /\ stdout = Say("No source lines found")

-----------------------------------------------------------------------------
(* More properties of the emitted code, on the machine.                    *)

\* C17: call f N started with SP = s: when control is at f's entry label,
\* RAM[s] holds the address of the call's return label, RAM[s+1..s+4] hold
\* the caller's LCL, ARG, THIS, THAT, SP = LCL = s + 5 and ARG = SP - 5 - N,
\* so 5 + N slots lie between ARG and LCL; the return label is declared right
\* after the jump to f.
C17_CallFrameLayout ==
    (scen.kind = "call" /\ cpu.PC = scen.fAddr) =>
        /\ RamRead(cpu, scen.s) = scen.retAddr
        /\ RamRead(cpu, scen.s + 1) = scen.lcl
        /\ RamRead(cpu, scen.s + 2) = scen.arg
        /\ RamRead(cpu, scen.s + 3) = scen.this
        /\ RamRead(cpu, scen.s + 4) = scen.that
        /\ SP = scen.s + 5
        /\ LCL = scen.s + 5
        /\ ARG = SP - 5 - scen.N
        /\ LCL - ARG = 5 + scen.N
        /\ scen.retAddr = scen.mid
        /\ scen.rom[scen.mid].c[3] = "JMP"
        /\ scen.rom[scen.mid - 1].vals = {scen.fAddr}

\* control is at f's entry label after a call with arguments from a stack
\* that does not start where the locals of the caller do
C17_Witness ==
    /\ scen.kind = "call" /\ cpu.PC = scen.fAddr
    /\ scen.N = 1 /\ scen.s = 261 /\ scen.lcl = 300
    /\ RamRead(cpu, 262) = 300 /\ LCL = 266 /\ ARG = 260

\* the relation a comparison operator stands for
Related(op, x, y) ==
    CASE op = ALTypeEq -> x = y
      [] op = ALTypeGt -> x > y
      [] op = ALTypeLt -> x < y

\* C18: x pushed, y pushed, then eq / gt / lt: the two operands are replaced
\* by one cell that holds -1 (all ones) when x = y / x > y / x < y and 0
\* otherwise, and SP ends one above where x was pushed, also when x - y does
\* not fit in 16 bits.
C18_ComparisonResult ==
    (scen.kind = "compare" /\ pc = "halted") =>
        /\ SP = scen.s + 1
        /\ RamRead(cpu, scen.s) = IF Related(scen.op, scen.a, scen.b) THEN 65535 ELSE 0

-----------------------------------------------------------------------------
(* Runs over modules with functions and calls.                              *)

MaxCallCmds == 3     \* source lines of one input, all files together
MaxCallFiles == 2    \* source files of one input

CallPool == {Line3(W_function, S_f, 0), S_functionSysInit0, Line3(W_call, S_f, 0),
             Line2(W_label, S_L)}

InitCalls == InitMainOver(Inputs(CallPool, MaxCallCmds, MaxCallFiles))

SpecCalls == InitCalls /\ [][Next]_vars

IsCallCmd(e) == e.ct = CommandTypeCall

\* 1 when the output starts with the bootstrap and its call, else 0
BootstrapCalls ==
    IF resultLines # <<>> /\ resultLines[1] = Comment("// Bootstrap code", <<>>)
    THEN 1 ELSE 0

\* the calls among the first n translated commands
CallsBefore(n) == Cardinality({k \in 1..(n - 1) : IsCallCmd(Log(k))})

\* the function the command at position n is enclosed in: the name of the
\* last function command before it, LABEL when there is none
EnclosingFunction(n) ==
    LET fs == {k \in 1..(n - 1) : IsFunctionCmd(Log(k))}
    IN IF fs = {} THEN S_LABEL
       ELSE Log(CHOOSE k \in fs : \A x \in fs : x <= k).arg1

S_dollarRet == <<"$","r","e","t",".">>

\* C19: the n-th call sequence of a run, the bootstrap's being the first when
\* there is one, declares the label <F>$ret.<n> with F the function its call
\* site is enclosed in; the counter starts at 1, goes up by one with every
\* call sequence and with nothing else, modules included, and no two call
\* sites have the same return label.
C19_ReturnLabels ==
    /\ retIndex = 1 + BootstrapCalls + CallsBefore(Len(emitLog) + 1)
    /\ BootstrapCalls = 1 =>
          LabelsOf(resultLines)[1] = S_LABEL \o S_dollarRet \o Itoa(1)
    /\ \A a \in Logged :
          IsCallCmd(Log(a)) =>
              Log(a).labels = <<EnclosingFunction(a) \o S_dollarRet
                                \o Itoa(BootstrapCalls + CallsBefore(a) + 1)>>
    /\ \A a, b \in Logged :
          (IsCallCmd(Log(a)) /\ IsCallCmd(Log(b)) /\ a # b) =>
              /\ Log(a).labels # Log(b).labels
              /\ BootstrapCalls = 1 => Log(a).labels # <<LabelsOf(resultLines)[1]>>

\* a run with the bootstrap, a call outside any function in one module and a
\* call inside Sys.init in the next one
C19_Witness ==
    /\ pc = "done"
    /\ Len(srcFiles) = 2
    /\ BootstrapCalls = 1
    /\ \E a, b \in Logged :
          /\ Log(a).labels = <<S_LABEL \o S_dollarRet \o Itoa(2)>>
          /\ Log(b).labels = <<S_SysInit \o S_dollarRet \o Itoa(3)>>
          /\ Log(a).file # Log(b).file

\* the lines of one push of the constant 0
PushZero == <<AI(<<"0">>), CI("D=A"), AI(S_SP), CI("AM=M+1"), CI("A=A-1"), CI("M=D")>>

\* C20: function f K emits the label (f) and then K pushes of the constant
\* 0 and nothing else; entered through a call, with SP = LCL at the label,
\* the code leaves RAM[LCL..LCL+K-1] all 0 and SP = LCL + K; and it makes f
\* the current function name, which the commands after it leave as it is.
C20_FunctionDeclaration ==
    scen.kind = "call" =>
        /\ scen.fnBlock[2] = LabelDecl(S_f)
        /\ Len(scen.fnBlock) = 2 + scen.K * Len(PushZero)
        /\ \A j \in 1..scen.K :
              SubSeq(scen.fnBlock, 3 + (j - 1) * Len(PushZero), 2 + j * Len(PushZero)) = PushZero
        /\ scen.cfnAfter = S_f
        /\ cpu.PC = scen.fAddr => SP = LCL
        /\ cpu.PC = scen.bodyAddr =>
              /\ SP = LCL + scen.K
              /\ LCL = scen.s + 5
              /\ \A j \in 0..(scen.K - 1) : RamRead(cpu, LCL + j) = 0

\* the declaration of a function with MaxLocals locals has run on a memory
\* that held no zero there
C20_Witness ==
    /\ scen.kind = "call" /\ cpu.PC = scen.bodyAddr
    /\ scen.K = MaxLocals /\ cpu.fill = 3
    /\ SP = LCL + MaxLocals
    /\ RamRead(cpu, LCL) = 0 /\ RamRead(cpu, LCL + MaxLocals - 1) = 0

-----------------------------------------------------------------------------
(* The entry point behind the bootstrap, the file handles and the           *)
(* destination file on failure.                                             *)

\* the cleaned line is a function command that declares Sys.init
IsSysInitCommand(line) ==
    LET p == parseInstruction(0, <<>>, removeCommentsAndSpaces(line))
    IN /\ removeCommentsAndSpaces(line) # <<>>
       /\ p.kind = "ok"
       /\ p.ins.CommandType = CommandTypeFunction
       /\ p.ins.Arg1 = S_SysInit

\* C23: the entry-point search picks only a module that holds a function
\* Sys.init command once its lines are cleaned, and an output that starts
\* with the bootstrap declares the label (Sys.init) the bootstrap jumps to.
C23_BootstrapHasEntryPoint ==
    /\ fileWithSysInit # 0 =>
          \E n \in 1..Len(srcFiles[fileWithSysInit].lines) :
              IsSysInitCommand(srcFiles[fileWithSysInit].lines[n])
    /\ (pc = "done" /\ BootstrapCalls = 1) =>
          \E n \in 1..Len(LabelsOf(dst.lines)) : LabelsOf(dst.lines)[n] = S_SysInit

\* C21: in no terminal state of a run, the early exits included, is a file
\* handle open that the run has not closed.
C21_HandlesClosedOnExit ==
    pc \in {"done", "exit"} => openHandles = {}

-----------------------------------------------------------------------------
(* Runs that fail in the translation loop, over a destination file that    *)
(* exists already or does not.                                              *)

MaxFailCmds == 2    \* source lines of the module

\* a valid command, the entry point, a line of no command and a line that
\* makes the parser panic
FailPool == {Line3(W_push, W_constant, 7), S_functionSysInit0, T_bogus, W_push}

\* the destination file of an earlier run
OldFile == [exists |-> TRUE, lines |-> <<Comment("// old", <<>>), CI("M=0")>>]

InitFail ==
    /\ srcFiles \in Inputs(FailPool, MaxFailCmds, 1)
    /\ dst \in {[exists |-> FALSE, lines |-> <<>>], OldFile}
    /\ dstBefore = dst
    /\ pc = "scan"
    /\ fileWithSysInit = 0
    /\ instructionsLines = <<>>
    /\ resultLines = <<>>
    /\ i = 0
    /\ currentFunctionName = S_LABEL
    /\ retIndex = 1
    /\ scanOrder = <<>>
    /\ exitCode = -1
    /\ stdout = Say("")
    /\ cmpFile = NoCmpFile
    /\ openHandles = {SrcHandle(k) : k \in 1..Len(srcFiles)}
    /\ emitLog = <<>>
    /\ ParseIdle /\ MachineIdle

SpecFail == InitFail /\ [][Next]_vars

\* the positions of the commands read that parseInstruction does not accept
BadCommands ==
    {k \in 1..Len(instructionsLines) :
        LET d == decodeLineFileName(instructionsLines[k])
        IN parseInstruction(k - 1, d.file, d.line).kind # "ok"}

\* C22: when a command of the program fails to parse, the run ends at the
\* first such command with exit code 2, and the destination file holds no
\* generated line, neither of the bootstrap nor of the commands before the
\* failing one: its lines are those it had before the run.
C22_NoPartialOutput ==
    BadCommands # {} =>
        /\ pc \notin {"write", "compare", "done"}
        /\ dst.lines = dstBefore.lines
        /\ dstBefore.exists => dst = dstBefore
        /\ pc = "exit" =>
              /\ exitCode = 2
              /\ \A k \in BadCommands : i < k
              /\ i + 1 \in BadCommands

\* a run over an existing destination file has emitted the bootstrap and the
\* code of a valid command and then failed on the next command
C22_Witness ==
    /\ pc = "exit" /\ exitCode = 2
    /\ BootstrapCalls = 1 /\ i = 1 /\ Len(emitLog) = 1
    /\ dstBefore = OldFile /\ dst = OldFile
    /\ openHandles # {}

====
